---- MODULE Spec2Model ----
(***************************************************************************)
(* Schema inference and TTL cache of the dashboard application (app.py):  *)
(* JSONSchemaAnalyzer, CacheManager and the global cache_manager.          *)
(* Text is modelled as sequences of one-character strings, so that         *)
(* str.lower() and the substring test `term in s` are computed.            *)
(***************************************************************************)
EXTENDS Integers, Sequences, FiniteSets, TLC

(* ------------------------------ bounds --------------------------------- *)
\* Number of times the wall clock moves in a run.
MaxSteps == 3
\* Number of Python objects (schema dicts) that can be alive at once.
MaxObjs == 5
\* the largest number of records of a generated dataset
MaxRows == 25

(* ------------------------- program constants --------------------------- *)
\* CacheManager.__init__: self.cache_ttl = 300
cache_ttl == 300
\* _detect_data_type: sample_size = min(5, len(json_data))
sample_limit == 5
\* _analyze_columns: col_data.head(3)
sample_head == 3
\* _detect_data_pattern: len(df) <= 24
pattern_row_limit == 24

(* ------------------------------ text ----------------------------------- *)
\* str.lower() on the characters of the model (Ascii and Latin-1): the
\* capitals A-Z and the Latin-1 capitals; every other character of the
\* alphabet is its own lower case
UpperToLower ==
  ("A" :> "a") @@ ("B" :> "b") @@ ("C" :> "c") @@ ("D" :> "d") @@ ("E" :> "e") @@
  ("F" :> "f") @@ ("G" :> "g") @@ ("H" :> "h") @@ ("I" :> "i") @@ ("J" :> "j") @@
  ("K" :> "k") @@ ("L" :> "l") @@ ("M" :> "m") @@ ("N" :> "n") @@ ("O" :> "o") @@
  ("P" :> "p") @@ ("Q" :> "q") @@ ("R" :> "r") @@ ("S" :> "s") @@ ("T" :> "t") @@
  ("U" :> "u") @@ ("V" :> "v") @@ ("W" :> "w") @@ ("X" :> "x") @@ ("Y" :> "y") @@
  ("Z" :> "z") @@ ("À" :> "à") @@ ("Á" :> "á") @@ ("Â" :> "â") @@ ("Ã" :> "ã") @@
  ("Ä" :> "ä") @@ ("Å" :> "å") @@ ("Æ" :> "æ") @@ ("Ç" :> "ç") @@ ("È" :> "è") @@
  ("É" :> "é") @@ ("Ê" :> "ê") @@ ("Ë" :> "ë") @@ ("Ì" :> "ì") @@ ("Í" :> "í") @@
  ("Î" :> "î") @@ ("Ï" :> "ï") @@ ("Ð" :> "ð") @@ ("Ñ" :> "ñ") @@ ("Ò" :> "ò") @@
  ("Ó" :> "ó") @@ ("Ô" :> "ô") @@ ("Õ" :> "õ") @@ ("Ö" :> "ö") @@ ("Ø" :> "ø") @@
  ("Ù" :> "ù") @@ ("Ú" :> "ú") @@ ("Û" :> "û") @@ ("Ü" :> "ü") @@ ("Ý" :> "ý") @@
  ("Þ" :> "þ")

\* str.lower()
Lower(s) ==
  LET lowered(map) == [i \in 1..Len(s) |-> IF s[i] \in DOMAIN map THEN map[s[i]] ELSE s[i]]
  IN  lowered(UpperToLower)

\* `term in s` for strings
Contains(s, term) ==
  \E i \in 1..(Len(s) - Len(term) + 1) : SubSeq(s, i, i + Len(term) - 1) = term

\* any(term in s for term in terms)
AnyTermIn(terms, s) ==
  \E j \in 1..Len(terms) : Contains(s, terms[j])

RECURSIVE JoinFrom(_, _)
JoinFrom(cols, i) ==
  IF i > Len(cols) THEN <<>>
  ELSE IF i = Len(cols) THEN cols[i]
  ELSE cols[i] \o <<" ">> \o JoinFrom(cols, i + 1)

\* ' '.join(columns)
Join(cols) == JoinFrom(cols, 1)

\* the elements of a sequence
Range(s) == {s[i] : i \in 1..Len(s)}

\* the characters of the text of the model: printable ASCII (without the
\* backquote) and the Latin-1 letters
Ascii ==
  <<" ", "!", "\"", "#", "$", "%", "&", "'", "(", ")", "*", "+", ",", "-", ".", "/",
    "0", "1", "2", "3", "4", "5", "6", "7", "8", "9", ":", ";", "<", "=", ">", "?",
    "@", "A", "B", "C", "D", "E", "F", "G", "H", "I", "J", "K", "L", "M", "N", "O",
    "P", "Q", "R", "S", "T", "U", "V", "W", "X", "Y", "Z", "[", "\\", "]", "^", "_",
    "a", "b", "c", "d", "e", "f", "g", "h", "i", "j", "k", "l", "m", "n", "o",
    "p", "q", "r", "s", "t", "u", "v", "w", "x", "y", "z", "{", "|", "}", "~">>

\* ord(c)
CodePoint ==
  LET points(chars, code(_)) ==
        [c \in Range(chars) |-> code(CHOOSE j \in 1..Len(chars) : chars[j] = c)]
      Latin1 ==
        <<"À", "Á", "Â", "Ã", "Ä", "Å", "Æ", "Ç", "È", "É", "Ê", "Ë", "Ì", "Í", "Î", "Ï",
          "Ð", "Ñ", "Ò", "Ó", "Ô", "Õ", "Ö", "×", "Ø", "Ù", "Ú", "Û", "Ü", "Ý", "Þ", "ß",
          "à", "á", "â", "ã", "ä", "å", "æ", "ç", "è", "é", "ê", "ë", "ì", "í", "î", "ï",
          "ð", "ñ", "ò", "ó", "ô", "õ", "ö", "÷", "ø", "ù", "ú", "û", "ü", "ý", "þ", "ÿ">>
  IN  points(Ascii, LAMBDA i : IF i <= 64 THEN 31 + i ELSE 32 + i)
      @@ points(Latin1, LAMBDA j : 191 + j)

\* str.encode(): the UTF-8 bytes of a text
Encode(s) ==
  LET RECURSIVE Flatten(_, _, _)
      Flatten(ss, lo, hi) ==
        IF lo > hi THEN <<>>
        ELSE IF lo = hi THEN ss[lo]
        ELSE Flatten(ss, lo, (lo + hi) \div 2) \o Flatten(ss, ((lo + hi) \div 2) + 1, hi)
      bytes(ss) == Flatten(ss, 1, Len(ss))
  IN  bytes([i \in 1..Len(s) |->
               LET cp == CodePoint[s[i]]
               IN  IF cp < 128 THEN <<cp>> ELSE <<192 + (cp \div 64), 128 + (cp % 64)>>])

(* --------------------------- JSON values ------------------------------- *)
JNull == [t |-> "null"]
JInt(n) == [t |-> "int", n |-> n]
JFloat(n) == [t |-> "float", n |-> n]
JBool(b) == [t |-> "bool", b |-> b]
JStr(s) == [t |-> "str", s |-> s]
\* a dict: the sequence of its (key, value) items in insertion order
JObj(items) == [t |-> "obj", f |-> items]
JArr(elems) == [t |-> "arr", a |-> elems]
KV(key, val) == [k |-> key, v |-> val]

\* isinstance(json_data, list)
IsList(data) == data.t = "arr"
IsDict(v) == v.t = "obj"

\* truth value of a Python object (`not json_data`)
Truthy(v) ==
  CASE v.t = "null" -> FALSE
    [] v.t = "int" -> v.n # 0
    [] v.t = "float" -> v.n # 0
    [] v.t = "bool" -> v.b
    [] v.t = "str" -> v.s # <<>>
    [] v.t = "obj" -> Len(v.f) > 0
    [] v.t = "arr" -> Len(v.a) > 0

\* list(d.keys())
Keys(d) == [i \in 1..Len(d.f) |-> d.f[i].k]

HasKey(d, key) == \E i \in 1..Len(d.f) : d.f[i].k = key

\* d[key], for a key the dict has
Lookup(d, key) == d.f[CHOOSE i \in 1..Len(d.f) : d.f[i].k = key].v

Min2(a, b) == IF a < b THEN a ELSE b

\* repr(v) of a JSON value
RECURSIVE PyRepr(_)
PyRepr(v) ==
  LET RECURSIVE Digits(_)
      Digits(n) ==
        IF n < 10 THEN <<Ascii[17 + n]>> ELSE Digits(n \div 10) \o <<Ascii[17 + (n % 10)]>>
      int(n) == IF n < 0 THEN <<"-">> \o Digits(0 - n) ELSE Digits(n)
      \* repr of a str: in double quotes when it holds a single quote and no
      \* double quote, else in single quotes; the quote and the backslash
      \* are escaped
      quoted(s, q) ==
        LET RECURSIVE Escaped(_, _)
            Escaped(lo, hi) ==
              IF lo > hi THEN <<>>
              ELSE IF lo = hi
                THEN IF s[lo] = q \/ s[lo] = "\\" THEN <<"\\", s[lo]>> ELSE <<s[lo]>>
              ELSE Escaped(lo, (lo + hi) \div 2) \o Escaped(((lo + hi) \div 2) + 1, hi)
        IN  <<q>> \o Escaped(1, Len(s)) \o <<q>>
      str(s) == quoted(s, IF "'" \in Range(s) /\ "\"" \notin Range(s) THEN "\"" ELSE "'")
      RECURSIVE Items(_, _)
      Items(parts, i) ==
        IF i > Len(parts) THEN <<>>
        ELSE IF i = Len(parts) THEN parts[i]
        ELSE parts[i] \o <<",", " ">> \o Items(parts, i + 1)
  IN  CASE v.t = "null" -> <<"N", "o", "n", "e">>
        [] v.t = "bool" -> IF v.b THEN <<"T", "r", "u", "e">> ELSE <<"F", "a", "l", "s", "e">>
        [] v.t = "int" -> int(v.n)
        [] v.t = "float" -> int(v.n) \o <<".", "0">>
        [] v.t = "str" -> str(v.s)
        [] v.t = "obj" ->
             <<"{">> \o Items([i \in 1..Len(v.f) |->
                                 str(v.f[i].k) \o <<":", " ">> \o PyRepr(v.f[i].v)], 1)
             \o <<"}">>
        [] v.t = "arr" ->
             <<"[">> \o Items([i \in 1..Len(v.a) |-> PyRepr(v.a[i])], 1) \o <<"]">>

\* str(v): a str is its own text
PyStr(v) == IF v.t = "str" THEN v.s ELSE PyRepr(v)

\* str(args) of the tuple args
TupleStr(args) ==
  LET RECURSIVE Items(_, _)
      Items(parts, i) ==
        IF i > Len(parts) THEN <<>>
        ELSE IF i = Len(parts) THEN parts[i]
        ELSE parts[i] \o <<",", " ">> \o Items(parts, i + 1)
      tuple(parts) ==
        <<"(">> \o Items(parts, 1) \o (IF Len(parts) = 1 THEN <<",">> ELSE <<>>) \o <<")">>
  IN  tuple([i \in 1..Len(args) |-> PyRepr(args[i])])

(* ------------------------- pandas DataFrame ---------------------------- *)
\* pd.DataFrame(list) builds a frame of named columns only from dicts
AllDicts(rows) == \A i \in 1..Len(rows) : IsDict(rows[i])

\* the keys of a list of dicts
Fields(rows) == UNION {Range(Keys(rows[r])) : r \in 1..Len(rows)}

\* where each key first appears: the first record that has it, and its
\* place in that record
Appearance(rows, names) ==
  [c \in names |->
     LET r == CHOOSE r \in 1..Len(rows) :
                HasKey(rows[r], c) /\ \A q \in 1..(r - 1) : ~HasKey(rows[q], c)
     IN  <<r, CHOOSE p \in 1..Len(rows[r].f) : rows[r].f[p].k = c>>]

\* the names in the order of where they appear
InOrder(names, at) ==
  [n \in 1..Cardinality(names) |->
     CHOOSE c \in names :
       Cardinality({a \in names : \/ at[a][1] < at[c][1]
                                  \/ at[a][1] = at[c][1] /\ at[a][2] < at[c][2]})
       = n - 1]

\* the keys of a list of dicts in order of first appearance: those of the
\* first record when no later record adds a key
FirstAppearance(rows) ==
  IF \A r \in 1..Len(rows) : \A p \in 1..Len(rows[r].f) : HasKey(rows[1], rows[r].f[p].k)
    THEN Keys(rows[1])
    ELSE InOrder(Fields(rows), Appearance(rows, Fields(rows)))

\* the label of column i of a frame built from a list that does not start
\* with a dict: the int i of a RangeIndex, which is no str
IntLabel(i) == <<"int", ToString(i)>>
IsIntLabel(col) == Len(col) = 2 /\ col[1] = "int"

\* list(row) of a row of a list of lists: the elements of a list, the
\* characters of a str, the keys of a dict
RowCells(row) ==
  CASE row.t = "arr" -> row.a
    [] row.t = "str" -> [i \in 1..Len(row.s) |-> [t |-> "str", s |-> <<row.s[i]>>]]
    [] row.t = "obj" -> [i \in 1..Len(row.f) |-> [t |-> "str", s |-> row.f[i].k]]

\* pd.DataFrame(rows) raises: the first element is a dict, so every element
\* is asked for its keys, and one of them is no dict (AttributeError); or the
\* first element is a list, so every element is asked for its len(), and one
\* of them has none (TypeError)
FrameRaises(rows) ==
  /\ Len(rows) > 0
  /\ \/ IsDict(rows[1]) /\ ~AllDicts(rows)
     \/ IsList(rows[1]) /\ \E i \in 1..Len(rows) : rows[i].t \notin {"arr", "str", "obj"}

\* df.columns: for dicts the union of the records' keys, in order of first
\* appearance; for a list of lists one int label per position of the longest
\* row; a list that starts with a scalar makes one column labelled 0
FrameColumns(rows) ==
  IF Len(rows) = 0 THEN <<>>
  ELSE IF IsDict(rows[1]) THEN FirstAppearance(rows)
  ELSE IF IsList(rows[1])
    THEN LET widths == {Len(RowCells(rows[i])) : i \in 1..Len(rows)}
         IN  [i \in 1..(CHOOSE w \in widths : \A v \in widths : v <= w) |->
                IntLabel(i - 1)]
  ELSE <<IntLabel(0)>>

\* df[col]: a record lacking the key holds NaN, and a row shorter than the
\* longest holds None, which are null
ColumnValues(rows, col) ==
  IF ~IsIntLabel(col)
    THEN [i \in 1..Len(rows) |->
            IF HasKey(rows[i], col) THEN Lookup(rows[i], col) ELSE JNull]
  ELSE IF IsList(rows[1])
    THEN LET column(cells) ==
               LET at == CHOOSE j \in UNION {1..Len(cells[i]) : i \in 1..Len(cells)} :
                           IntLabel(j - 1) = col
               IN  [i \in 1..Len(cells) |->
                      IF at <= Len(cells[i]) THEN cells[i][at] ELSE JNull]
         IN  column([i \in 1..Len(rows) |-> RowCells(rows[i])])
  ELSE rows

\* pd.DataFrame(json_data), as far as the analysis looks at it: its column
\* labels and len(df)
DataFrame(json_data) ==
  [columns |-> FrameColumns(json_data.a), len |-> Len(json_data.a)]

\* df[col].dropna()
DropNa(vals) == SelectSeq(vals, LAMBDA v : v.t # "null")

IsNumber(v) == v.t \in {"int", "float"}

\* dtype inferred by pandas for a column of JSON scalars
DType(vals) ==
  LET nn == DropNa(vals)
      hasNull == Len(nn) < Len(vals)
  IN  IF Len(nn) > 0 /\ \A i \in 1..Len(nn) : IsNumber(nn[i])
        THEN IF hasNull \/ \E i \in 1..Len(nn) : nn[i].t = "float"
               THEN "float64" ELSE "int64"
      ELSE IF Len(nn) > 0 /\ ~hasNull /\ \A i \in 1..Len(nn) : nn[i].t = "bool"
        THEN "bool"
      ELSE "object"

\* pd.api.types.is_numeric_dtype
IsNumericDType(dt) == dt \in {"int64", "float64", "bool"}

NumVal(v) == IF v.t = "bool" THEN (IF v.b THEN 1 ELSE 0) ELSE v.n

\* equality classes of Series.nunique(): 1, 1.0 and True hash alike
UniqueKey(v) ==
  IF v.t \in {"int", "float", "bool"} THEN [t |-> "num", n |-> NumVal(v)] ELSE v

\* the element a Series of dtype dt holds for the JSON value v
Stored(v, dt) == IF dt = "float64" THEN JFloat(v.n) ELSE v

\* a dict or list cell is unhashable: nunique() raises TypeError
Unhashable(v) == v.t \in {"obj", "arr"}

RECURSIVE SumSeq(_, _)
SumSeq(s, i) == IF i > Len(s) THEN 0 ELSE NumVal(s[i]) + SumSeq(s, i + 1)

(* ------------------------- JSONSchemaAnalyzer -------------------------- *)
\* _detect_data_type testing the customer terms first
_detect_data_type_customer_first(json_data) ==
  IF ~IsList(json_data) \/ ~Truthy(json_data) THEN "unknown"
  ELSE
    LET sample_size == Min2(sample_limit, Len(json_data.a))
        sample_data == SubSeq(json_data.a, 1, sample_size)
    IN  IF FrameRaises(sample_data) THEN "unknown"   \* except Exception
        ELSE
          LET category(joined) ==
                IF AnyTermIn(<<<<"c","u","s","t","o","m","e","r">>, <<"c","l","i","e","n","t">>, <<"c","o","n","c","e","n","t","r","a","t","i","o","n">>>>, joined) THEN "customer"
                ELSE IF AnyTermIn(<<<<"c","h","u","r","n">>, <<"e","x","p","a","n","s","i","o","n">>, <<"b","r","i","d","g","e">>>>, joined) THEN "bridge"
                ELSE IF AnyTermIn(<<<<"c","o","u","n","t","r","y">>, <<"r","e","g","i","o","n">>, <<"g","e","o","g","r","a","p","h","i","c">>>>, joined) THEN "geographic"
                ELSE IF AnyTermIn(<<<<"q","u","a","r","t","e","r">>, <<"q","3">>, <<"q","4">>, <<"q","o","q">>>>, joined) THEN "quarterly"
                ELSE IF AnyTermIn(<<<<"m","o","n","t","h">>, <<"m","o","n","t","h","l","y">>, <<"m","o","m">>>>, joined) THEN "monthly"
                ELSE "general"
              \* [col.lower() for col in df.columns], which raises for an int
              \* label
              columns(cols) ==
                IF \E i \in 1..Len(cols) : IsIntLabel(cols[i])
                  THEN "unknown"                     \* except Exception
                  ELSE category(Join([i \in 1..Len(cols) |-> Lower(cols[i])]))
          IN  columns(FrameColumns(sample_data))

\* _detect_data_type looking at every record
_detect_data_type_unsampled(json_data) ==
  IF ~IsList(json_data) \/ ~Truthy(json_data) THEN "unknown"
  ELSE
    LET sample_size == Len(json_data.a)
        sample_data == SubSeq(json_data.a, 1, sample_size)
    IN  IF FrameRaises(sample_data) THEN "unknown"   \* except Exception
        ELSE
          LET category(joined) ==
                IF AnyTermIn(<<<<"q","u","a","r","t","e","r">>, <<"q","3">>, <<"q","4">>, <<"q","o","q">>>>, joined) THEN "quarterly"
                ELSE IF AnyTermIn(<<<<"c","h","u","r","n">>, <<"e","x","p","a","n","s","i","o","n">>, <<"b","r","i","d","g","e">>>>, joined) THEN "bridge"
                ELSE IF AnyTermIn(<<<<"c","o","u","n","t","r","y">>, <<"r","e","g","i","o","n">>, <<"g","e","o","g","r","a","p","h","i","c">>>>, joined) THEN "geographic"
                ELSE IF AnyTermIn(<<<<"c","u","s","t","o","m","e","r">>, <<"c","l","i","e","n","t">>, <<"c","o","n","c","e","n","t","r","a","t","i","o","n">>>>, joined) THEN "customer"
                ELSE IF AnyTermIn(<<<<"m","o","n","t","h">>, <<"m","o","n","t","h","l","y">>, <<"m","o","m">>>>, joined) THEN "monthly"
                ELSE "general"
              \* [col.lower() for col in df.columns], which raises for an int
              \* label
              columns(cols) ==
                IF \E i \in 1..Len(cols) : IsIntLabel(cols[i])
                  THEN "unknown"                     \* except Exception
                  ELSE category(Join([i \in 1..Len(cols) |-> Lower(cols[i])]))
          IN  columns(FrameColumns(sample_data))

\* _detect_data_type
_detect_data_type(json_data) ==
  IF ~IsList(json_data) \/ ~Truthy(json_data) THEN "unknown"
  ELSE
    LET sample_size == Min2(sample_limit, Len(json_data.a))
        sample_data == SubSeq(json_data.a, 1, sample_size)
    IN  IF FrameRaises(sample_data) THEN "unknown"   \* except Exception
        ELSE
          LET category(joined) ==
                IF AnyTermIn(<<<<"q","u","a","r","t","e","r">>, <<"q","3">>, <<"q","4">>, <<"q","o","q">>>>, joined) THEN "quarterly"
                ELSE IF AnyTermIn(<<<<"c","h","u","r","n">>, <<"e","x","p","a","n","s","i","o","n">>, <<"b","r","i","d","g","e">>>>, joined) THEN "bridge"
                ELSE IF AnyTermIn(<<<<"c","o","u","n","t","r","y">>, <<"r","e","g","i","o","n">>, <<"g","e","o","g","r","a","p","h","i","c">>>>, joined) THEN "geographic"
                ELSE IF AnyTermIn(<<<<"c","u","s","t","o","m","e","r">>, <<"c","l","i","e","n","t">>, <<"c","o","n","c","e","n","t","r","a","t","i","o","n">>>>, joined) THEN "customer"
                ELSE IF AnyTermIn(<<<<"m","o","n","t","h">>, <<"m","o","n","t","h","l","y">>, <<"m","o","m">>>>, joined) THEN "monthly"
                ELSE "general"
              \* [col.lower() for col in df.columns], which raises for an int
              \* label
              columns(cols) ==
                IF \E i \in 1..Len(cols) : IsIntLabel(cols[i])
                  THEN "unknown"                     \* except Exception
                  ELSE category(Join([i \in 1..Len(cols) |-> Lower(cols[i])]))
          IN  columns(FrameColumns(sample_data))

\* _analyze_structure raises AttributeError at json_data[0].keys() when the
\* first element of the list is not a dict
StructureRaises(json_data) ==
  IsList(json_data) /\ Truthy(json_data) /\ ~IsDict(json_data.a[1])

\* _analyze_structure, where it returns
_analyze_structure(json_data) ==
  IF ~IsList(json_data) THEN [type |-> "single_object", count |-> 1]
  ELSE [type |-> "array_of_objects",
        count |-> Len(json_data.a),
        sample_keys |-> IF Truthy(json_data) THEN Keys(json_data.a[1]) ELSE <<>>]

\* the analysis counting as null only the records that hold null under the key
ColumnAnalysis_explicit_nulls(rows, col) ==
  LET analysis(vals, col_data, dt) ==
        LET base == [name |-> col,
                     data_type |-> dt,
                     non_null_count |-> Len(col_data),
                     null_count |->
                       Cardinality({i \in 1..Len(rows) :
                                      /\ IsDict(rows[i]) /\ HasKey(rows[i], col)
                                      /\ Lookup(rows[i], col) = JNull}),
                     unique_count |->
                       Cardinality({UniqueKey(col_data[i]) : i \in 1..Len(col_data)}),
                     is_numeric |-> IsNumericDType(dt),
                     is_datetime |-> FALSE,
                     sample_values |-> [i \in 1..Min2(sample_head, Len(col_data)) |->
                                          Stored(col_data[i], dt)]]
            nums == {NumVal(col_data[i]) : i \in 1..Len(col_data)}
        IN  IF IsNumericDType(dt)
              THEN base @@
                   [min_value |-> CHOOSE m \in nums : \A n \in nums : m <= n,
                    max_value |-> CHOOSE m \in nums : \A n \in nums : m >= n,
                    mean_value |-> [num |-> SumSeq(col_data, 1), den |-> Len(col_data)],
                    has_negative |-> \E n \in nums : n < 0]
              ELSE base
      column(vals) == analysis(vals, DropNa(vals), DType(vals))
  IN  column(ColumnValues(rows, col))

\* the `analysis` dict _analyze_columns builds for one column
ColumnAnalysis(rows, col) ==
  LET analysis(vals, col_data, dt) ==
        LET base == [name |-> col,
                     data_type |-> dt,
                     non_null_count |-> Len(col_data),
                     null_count |-> Len(vals) - Len(col_data),
                     unique_count |->
                       Cardinality({UniqueKey(col_data[i]) : i \in 1..Len(col_data)}),
                     is_numeric |-> IsNumericDType(dt),
                     is_datetime |-> FALSE,
                     sample_values |-> [i \in 1..Min2(sample_head, Len(col_data)) |->
                                          Stored(col_data[i], dt)]]
            nums == {NumVal(col_data[i]) : i \in 1..Len(col_data)}
        IN  IF IsNumericDType(dt)
              THEN base @@
                   [min_value |-> CHOOSE m \in nums : \A n \in nums : m <= n,
                    max_value |-> CHOOSE m \in nums : \A n \in nums : m >= n,
                    mean_value |-> [num |-> SumSeq(col_data, 1), den |-> Len(col_data)],
                    has_negative |-> \E n \in nums : n < 0]
              ELSE base
      column(vals) == analysis(vals, DropNa(vals), DType(vals))
  IN  column(ColumnValues(rows, col))

\* _analyze_columns: the analyses in df.columns order (the dict's insertion
\* order); a column with no non-null value is skipped
_analyze_columns(json_data) ==
  IF ~IsList(json_data) \/ ~Truthy(json_data) THEN <<>>
  ELSE IF FrameRaises(json_data.a) THEN <<>>        \* except Exception
  ELSE
    LET rows == json_data.a
        columns(kept) ==
          IF \E i \in 1..Len(kept) : \E j \in 1..Len(rows) :
                Unhashable(ColumnValues(rows, kept[i])[j])
            THEN <<>>                                \* except Exception
            ELSE [i \in 1..Len(kept) |-> ColumnAnalysis(rows, kept[i])]
    IN  columns(SelectSeq(FrameColumns(rows),
                          LAMBDA c : Len(DropNa(ColumnValues(rows, c))) > 0))

\* the chain of _identify_metrics testing the date terms before the revenue
\* terms
MetricGroup_date_first(analysis, record_count) ==
  LET group(col_lower) ==
        IF AnyTermIn(<<<<"d","a","t","e">>, <<"m","o","n","t","h">>, <<"q","u","a","r","t","e","r">>, <<"y","e","a","r">>, <<"t","i","m","e">>>>, col_lower)
          THEN "date_columns"
        ELSE IF AnyTermIn(<<<<"r","e","v","e","n","u","e">>, <<"a","m","o","u","n","t">>, <<"v","a","l","u","e">>, <<"p","r","i","c","e">>, <<"c","o","s","t">>>>, col_lower)
          THEN IF analysis.is_numeric THEN "revenue_columns" ELSE "none"
        ELSE IF AnyTermIn(<<<<"p","e","r","c","e","n","t">>, <<"%">>, <<"r","a","t","e">>, <<"r","a","t","i","o">>>>, col_lower)
          THEN "percentage_columns"
        ELSE IF AnyTermIn(<<<<"i","d">>, <<"n","a","m","e">>, <<"c","u","s","t","o","m","e","r">>, <<"c","l","i","e","n","t">>>>, col_lower)
          THEN "id_columns"
        ELSE IF ~analysis.is_numeric /\ 2 * analysis.unique_count < record_count
          THEN "categorical_columns"
        ELSE "none"
  IN  group(Lower(analysis.name))

\* the chain with a column of exactly half as many values as records taken as
\* categorical
MetricGroup_half_included(analysis, record_count) ==
  LET group(col_lower) ==
        IF AnyTermIn(<<<<"r","e","v","e","n","u","e">>, <<"a","m","o","u","n","t">>, <<"v","a","l","u","e">>, <<"p","r","i","c","e">>, <<"c","o","s","t">>>>, col_lower)
          THEN IF analysis.is_numeric THEN "revenue_columns" ELSE "none"
        ELSE IF AnyTermIn(<<<<"d","a","t","e">>, <<"m","o","n","t","h">>, <<"q","u","a","r","t","e","r">>, <<"y","e","a","r">>, <<"t","i","m","e">>>>, col_lower)
          THEN "date_columns"
        ELSE IF AnyTermIn(<<<<"p","e","r","c","e","n","t">>, <<"%">>, <<"r","a","t","e">>, <<"r","a","t","i","o">>>>, col_lower)
          THEN "percentage_columns"
        ELSE IF AnyTermIn(<<<<"i","d">>, <<"n","a","m","e">>, <<"c","u","s","t","o","m","e","r">>, <<"c","l","i","e","n","t">>>>, col_lower)
          THEN "id_columns"
        ELSE IF ~analysis.is_numeric /\ 2 * analysis.unique_count <= record_count
          THEN "categorical_columns"
        ELSE "none"
  IN  group(Lower(analysis.name))

\* the chain with the numeric test inside the revenue condition: a column
\* with a revenue keyword and values that are not numeric goes on to the
\* later tests
MetricGroup_fall_through(analysis, record_count) ==
  LET group(col_lower) ==
        IF AnyTermIn(<<<<"r","e","v","e","n","u","e">>, <<"a","m","o","u","n","t">>, <<"v","a","l","u","e">>, <<"p","r","i","c","e">>, <<"c","o","s","t">>>>, col_lower)
           /\ analysis.is_numeric
          THEN "revenue_columns"
        ELSE IF AnyTermIn(<<<<"d","a","t","e">>, <<"m","o","n","t","h">>, <<"q","u","a","r","t","e","r">>, <<"y","e","a","r">>, <<"t","i","m","e">>>>, col_lower)
          THEN "date_columns"
        ELSE IF AnyTermIn(<<<<"p","e","r","c","e","n","t">>, <<"%">>, <<"r","a","t","e">>, <<"r","a","t","i","o">>>>, col_lower)
          THEN "percentage_columns"
        ELSE IF AnyTermIn(<<<<"i","d">>, <<"n","a","m","e">>, <<"c","u","s","t","o","m","e","r">>, <<"c","l","i","e","n","t">>>>, col_lower)
          THEN "id_columns"
        ELSE IF ~analysis.is_numeric /\ 2 * analysis.unique_count < record_count
          THEN "categorical_columns"
        ELSE "none"
  IN  group(Lower(analysis.name))

\* which list of `metrics` the if/elif chain of _identify_metrics appends a
\* column to ("none" when no branch appends)
MetricGroup(analysis, record_count) ==
  LET group(col_lower) ==
        IF AnyTermIn(<<<<"r","e","v","e","n","u","e">>, <<"a","m","o","u","n","t">>, <<"v","a","l","u","e">>, <<"p","r","i","c","e">>, <<"c","o","s","t">>>>, col_lower)
          THEN IF analysis.is_numeric THEN "revenue_columns" ELSE "none"
        ELSE IF AnyTermIn(<<<<"d","a","t","e">>, <<"m","o","n","t","h">>, <<"q","u","a","r","t","e","r">>, <<"y","e","a","r">>, <<"t","i","m","e">>>>, col_lower)
          THEN "date_columns"
        ELSE IF AnyTermIn(<<<<"p","e","r","c","e","n","t">>, <<"%">>, <<"r","a","t","e">>, <<"r","a","t","i","o">>>>, col_lower)
          THEN "percentage_columns"
        ELSE IF AnyTermIn(<<<<"i","d">>, <<"n","a","m","e">>, <<"c","u","s","t","o","m","e","r">>, <<"c","l","i","e","n","t">>>>, col_lower)
          THEN "id_columns"
        ELSE IF ~analysis.is_numeric /\ 2 * analysis.unique_count < record_count
          THEN "categorical_columns"
        ELSE "none"
  IN  group(Lower(analysis.name))

\* the tests of the chain taken as separate `if`s
InGroup_independent(g, analysis, record_count) ==
  LET member(col_lower) ==
        CASE g = "revenue_columns" ->
                 AnyTermIn(<<<<"r","e","v","e","n","u","e">>, <<"a","m","o","u","n","t">>, <<"v","a","l","u","e">>, <<"p","r","i","c","e">>, <<"c","o","s","t">>>>, col_lower)
                 /\ analysis.is_numeric
            [] g = "date_columns" ->
                 AnyTermIn(<<<<"d","a","t","e">>, <<"m","o","n","t","h">>, <<"q","u","a","r","t","e","r">>, <<"y","e","a","r">>, <<"t","i","m","e">>>>, col_lower)
            [] g = "percentage_columns" ->
                 AnyTermIn(<<<<"p","e","r","c","e","n","t">>, <<"%">>, <<"r","a","t","e">>, <<"r","a","t","i","o">>>>, col_lower)
            [] g = "id_columns" ->
                 AnyTermIn(<<<<"i","d">>, <<"n","a","m","e">>, <<"c","u","s","t","o","m","e","r">>, <<"c","l","i","e","n","t">>>>, col_lower)
            [] OTHER -> ~analysis.is_numeric /\ 2 * analysis.unique_count < record_count
  IN  member(Lower(analysis.name))

\* the test under which the chain of _identify_metrics appends a column to
\* the list g
InGroup(g, analysis, record_count) == MetricGroup(analysis, record_count) = g

\* col.lower() raises AttributeError in _identify_metrics for an int label
IdentifyRaises(json_data) ==
  \E analysis \in Range(_analyze_columns(json_data)) : IsIntLabel(analysis.name)

\* len(json_data)
PyLen(json_data) ==
  CASE json_data.t = "arr" -> Len(json_data.a)
    [] json_data.t = "obj" -> Len(json_data.f)
    [] OTHER -> 0

\* _identify_metrics, where it returns
_identify_metrics(json_data) ==
  LET metrics(columns, n) ==
        LET group(g) == LET hit == SelectSeq(columns, LAMBDA a : InGroup(g, a, n))
                        IN  [i \in 1..Len(hit) |-> hit[i].name]
        IN  [revenue_columns |-> group("revenue_columns"),
             date_columns |-> group("date_columns"),
             categorical_columns |-> group("categorical_columns"),
             percentage_columns |-> group("percentage_columns"),
             id_columns |-> group("id_columns")]
  IN  metrics(_analyze_columns(json_data), PyLen(json_data))

\* _suggest_visualizations as an if/elif chain: only the first rule that
\* fires appends
_suggest_visualizations_exclusive(schema) ==
  LET metrics == schema.metrics
      data_type == schema.data_type
  IN  IF Len(metrics.revenue_columns) > 0
        THEN <<"bar_chart", "line_chart", "metric_cards">>
      ELSE IF data_type = "geographic" THEN <<"pie_chart", "treemap", "bar_chart">>
      ELSE IF Len(metrics.date_columns) > 0 THEN <<"line_chart", "area_chart">>
      ELSE IF data_type = "customer" \/ Len(metrics.id_columns) > 0
        THEN <<"treemap", "pareto_chart", "concentration_analysis">>
      ELSE IF data_type = "bridge" THEN <<"waterfall_chart", "sankey_diagram">>
      ELSE <<"table", "bar_chart", "summary_metrics">>

\* _suggest_visualizations without its default list
_suggest_visualizations_no_default(schema) ==
  LET metrics == schema.metrics
      data_type == schema.data_type
      s1 == IF Len(metrics.revenue_columns) > 0
              THEN <<"bar_chart", "line_chart", "metric_cards">> ELSE <<>>
      s2 == IF data_type = "geographic"
              THEN <<"pie_chart", "treemap", "bar_chart">> ELSE <<>>
      s3 == IF Len(metrics.date_columns) > 0
              THEN <<"line_chart", "area_chart">> ELSE <<>>
      s4 == IF data_type = "customer" \/ Len(metrics.id_columns) > 0
              THEN <<"treemap", "pareto_chart", "concentration_analysis">> ELSE <<>>
      s5 == IF data_type = "bridge"
              THEN <<"waterfall_chart", "sankey_diagram">> ELSE <<>>
  IN  s1 \o s2 \o s3 \o s4 \o s5

\* _suggest_visualizations
_suggest_visualizations(schema) ==
  LET metrics == schema.metrics
      data_type == schema.data_type
      s1 == IF Len(metrics.revenue_columns) > 0
              THEN <<"bar_chart", "line_chart", "metric_cards">> ELSE <<>>
      s2 == IF data_type = "geographic"
              THEN <<"pie_chart", "treemap", "bar_chart">> ELSE <<>>
      s3 == IF Len(metrics.date_columns) > 0
              THEN <<"line_chart", "area_chart">> ELSE <<>>
      s4 == IF data_type = "customer" \/ Len(metrics.id_columns) > 0
              THEN <<"treemap", "pareto_chart", "concentration_analysis">> ELSE <<>>
      s5 == IF data_type = "bridge"
              THEN <<"waterfall_chart", "sankey_diagram">> ELSE <<>>
      suggestions == s1 \o s2 \o s3 \o s4 \o s5
  IN  IF Len(suggestions) = 0 THEN <<"table", "bar_chart", "summary_metrics">>
      ELSE suggestions

\* _calculate_confidence with no term capped
_calculate_confidence_uncapped(schema) ==
  LET s1 == IF schema.data_type # "unknown" THEN 30 ELSE 0
      s2 == Len(schema.columns) * 2
      metrics == schema.metrics
      total_metrics == Len(metrics.revenue_columns) + Len(metrics.date_columns)
                       + Len(metrics.categorical_columns)
                       + Len(metrics.percentage_columns) + Len(metrics.id_columns)
      s3 == total_metrics * 5
      s4 == IF Len(schema.suggested_visualizations) > 0 THEN 20 ELSE 0
  IN  s1 + s2 + s3 + s4

\* _calculate_confidence scoring one point per column
_calculate_confidence_per_column(schema) ==
  LET s1 == IF schema.data_type # "unknown" THEN 30 ELSE 0
      s2 == IF Len(schema.columns) > 0 THEN Min2(20, Len(schema.columns)) ELSE 0
      metrics == schema.metrics
      total_metrics == Len(metrics.revenue_columns) + Len(metrics.date_columns)
                       + Len(metrics.categorical_columns)
                       + Len(metrics.percentage_columns) + Len(metrics.id_columns)
      s3 == Min2(30, total_metrics * 5)
      s4 == IF Len(schema.suggested_visualizations) > 0 THEN 20 ELSE 0
  IN  Min2(100, s1 + s2 + s3 + s4)

\* _calculate_confidence
_calculate_confidence(schema) ==
  LET s1 == IF schema.data_type # "unknown" THEN 30 ELSE 0
      s2 == IF Len(schema.columns) > 0 THEN Min2(20, Len(schema.columns) * 2) ELSE 0
      metrics == schema.metrics
      total_metrics == Len(metrics.revenue_columns) + Len(metrics.date_columns)
                       + Len(metrics.categorical_columns)
                       + Len(metrics.percentage_columns) + Len(metrics.id_columns)
      s3 == Min2(30, total_metrics * 5)
      s4 == IF Len(schema.suggested_visualizations) > 0 THEN 20 ELSE 0
  IN  Min2(100, s1 + s2 + s3 + s4)

\* the dict analyze_json_schema assembles on a cache miss (lines 488-499),
\* when no step raises
BuildSchema(json_data) ==
  LET scored(schema) ==
        [schema EXCEPT !.confidence_score = _calculate_confidence(schema)]
      suggested(schema) ==
        scored([schema EXCEPT
                  !.suggested_visualizations = _suggest_visualizations(schema)])
  IN  suggested([data_type |-> _detect_data_type(json_data),
                 structure |-> _analyze_structure(json_data),
                 columns |-> _analyze_columns(json_data),
                 metrics |-> _identify_metrics(json_data),
                 suggested_visualizations |-> <<>>,
                 confidence_score |-> 0])

(* ---------------------- DynamicDashboardGenerator ---------------------- *)
\* the keyword lists of _detect_data_pattern
bridge_terms ==
  <<<<"e","x","p","a","n","s","i","o","n">>, <<"c","o","n","t","r","a","c","t","i","o","n">>, <<"c","h","u","r","n">>, <<"n","e","w">>, <<"b","r","i","d","g","e">>, <<"s","t","a","r","t","i","n","g">>, <<"e","n","d","i","n","g">>>>
customer_terms == <<<<"c","u","s","t","o","m","e","r">>, <<"c","l","i","e","n","t">>, <<"c","o","m","p","a","n","y">>>>
revenue_terms == <<<<"r","e","v","e","n","u","e">>, <<"a","m","o","u","n","t">>, <<"v","a","l","u","e">>>>
geo_terms ==
  <<<<"c","o","u","n","t","r","y">>, <<"r","e","g","i","o","n">>, <<"g","e","o","g","r","a","p","h","i","c">>, <<"l","o","c","a","t","i","o","n">>>>
quarterly_terms == <<<<"q","3">>, <<"q","4">>, <<"q","u","a","r","t","e","r">>, <<"q","o","q">>>>
monthly_terms ==
  <<<<"m","o","n","t","h">>, <<"m","o","n","t","h","l","y">>, <<"j","a","n">>, <<"f","e","b">>, <<"m","a","r">>, <<"a","p","r">>, <<"m","a","y">>, <<"j","u","n">>, <<"j","u","l">>, <<"a","u","g">>, <<"s","e","p">>, <<"o","c","t">>, <<"n","o","v">>, <<"d","e","c">>>>
time_terms == <<<<"d","a","t","e">>, <<"t","i","m","e">>, <<"p","e","r","i","o","d">>>>

\* _detect_data_pattern testing the customer rule before the bridge rule
_detect_data_pattern_customer_first(df, analysis_type) ==
  LET columns == [i \in 1..Len(df.columns) |-> Lower(df.columns[i])]
      pattern(joined) ==
        IF AnyTermIn(customer_terms, joined) /\ AnyTermIn(revenue_terms, joined)
            THEN "customer_analysis"
          ELSE IF AnyTermIn(bridge_terms, joined) THEN "revenue_bridge"
          ELSE IF AnyTermIn(geo_terms, joined) THEN "geographic"
          ELSE IF AnyTermIn(quarterly_terms, joined) THEN "quarterly"
          ELSE IF AnyTermIn(monthly_terms, joined) THEN "monthly_trends"
          ELSE IF Contains(joined, <<"m","o","n","t","h","_","l","a","b","e","l">>)
                  /\ AnyTermIn(revenue_terms, joined)
            THEN "monthly_trends"
          ELSE IF Contains(joined, <<"v","a","r","i","a","n","c","e">>)
                  /\ AnyTermIn(<<<<"r","e","v","e","n","u","e">>, <<"a","m","o","u","n","t">>>>, joined)
            THEN "monthly_trends"
          ELSE IF AnyTermIn(time_terms, joined) /\ AnyTermIn(revenue_terms, joined)
                  /\ df.len <= pattern_row_limit
            THEN "monthly_trends"
          ELSE "default"
  IN  pattern(Join(columns))

\* _detect_data_pattern with the row limit on every monthly rule
_detect_data_pattern_all_limited(df, analysis_type) ==
  LET columns == [i \in 1..Len(df.columns) |-> Lower(df.columns[i])]
      pattern(joined) ==
        IF AnyTermIn(bridge_terms, joined) THEN "revenue_bridge"
          ELSE IF AnyTermIn(customer_terms, joined) /\ AnyTermIn(revenue_terms, joined)
            THEN "customer_analysis"
          ELSE IF AnyTermIn(geo_terms, joined) THEN "geographic"
          ELSE IF AnyTermIn(quarterly_terms, joined) THEN "quarterly"
          ELSE IF df.len > pattern_row_limit THEN "default"
          ELSE IF AnyTermIn(monthly_terms, joined) THEN "monthly_trends"
          ELSE IF Contains(joined, <<"m","o","n","t","h","_","l","a","b","e","l">>)
                  /\ AnyTermIn(revenue_terms, joined)
            THEN "monthly_trends"
          ELSE IF Contains(joined, <<"v","a","r","i","a","n","c","e">>)
                  /\ AnyTermIn(<<<<"r","e","v","e","n","u","e">>, <<"a","m","o","u","n","t">>>>, joined)
            THEN "monthly_trends"
          ELSE IF AnyTermIn(time_terms, joined) /\ AnyTermIn(revenue_terms, joined)
                  /\ df.len <= pattern_row_limit
            THEN "monthly_trends"
          ELSE "default"
  IN  pattern(Join(columns))

\* _detect_data_pattern with the last rule asking for fewer rows than the limit
_detect_data_pattern_below_limit(df, analysis_type) ==
  LET columns == [i \in 1..Len(df.columns) |-> Lower(df.columns[i])]
      pattern(joined) ==
        IF AnyTermIn(bridge_terms, joined) THEN "revenue_bridge"
          ELSE IF AnyTermIn(customer_terms, joined) /\ AnyTermIn(revenue_terms, joined)
            THEN "customer_analysis"
          ELSE IF AnyTermIn(geo_terms, joined) THEN "geographic"
          ELSE IF AnyTermIn(quarterly_terms, joined) THEN "quarterly"
          ELSE IF AnyTermIn(monthly_terms, joined) THEN "monthly_trends"
          ELSE IF Contains(joined, <<"m","o","n","t","h","_","l","a","b","e","l">>)
                  /\ AnyTermIn(revenue_terms, joined)
            THEN "monthly_trends"
          ELSE IF Contains(joined, <<"v","a","r","i","a","n","c","e">>)
                  /\ AnyTermIn(<<<<"r","e","v","e","n","u","e">>, <<"a","m","o","u","n","t">>>>, joined)
            THEN "monthly_trends"
          ELSE IF AnyTermIn(time_terms, joined) /\ AnyTermIn(revenue_terms, joined)
                  /\ df.len < pattern_row_limit
            THEN "monthly_trends"
          ELSE "default"
  IN  pattern(Join(columns))

\* _detect_data_pattern taking the declared category quarterly at its word
_detect_data_pattern_declared_first(df, analysis_type) ==
  LET columns == [i \in 1..Len(df.columns) |-> Lower(df.columns[i])]
      pattern(joined) ==
        IF analysis_type = "quarterly" THEN "quarterly"
          ELSE IF AnyTermIn(bridge_terms, joined) THEN "revenue_bridge"
          ELSE IF AnyTermIn(customer_terms, joined) /\ AnyTermIn(revenue_terms, joined)
            THEN "customer_analysis"
          ELSE IF AnyTermIn(geo_terms, joined) THEN "geographic"
          ELSE IF AnyTermIn(quarterly_terms, joined) THEN "quarterly"
          ELSE IF AnyTermIn(monthly_terms, joined) THEN "monthly_trends"
          ELSE IF Contains(joined, <<"m","o","n","t","h","_","l","a","b","e","l">>)
                  /\ AnyTermIn(revenue_terms, joined)
            THEN "monthly_trends"
          ELSE IF Contains(joined, <<"v","a","r","i","a","n","c","e">>)
                  /\ AnyTermIn(<<<<"r","e","v","e","n","u","e">>, <<"a","m","o","u","n","t">>>>, joined)
            THEN "monthly_trends"
          ELSE IF AnyTermIn(time_terms, joined) /\ AnyTermIn(revenue_terms, joined)
                  /\ df.len <= pattern_row_limit
            THEN "monthly_trends"
          ELSE "default"
  IN  pattern(Join(columns))

\* _detect_data_pattern(df, analysis_type), where col.lower() does not raise
_detect_data_pattern(df, analysis_type) ==
  LET columns == [i \in 1..Len(df.columns) |-> Lower(df.columns[i])]
      pattern(joined) ==
        IF AnyTermIn(bridge_terms, joined) THEN "revenue_bridge"
          ELSE IF AnyTermIn(customer_terms, joined) /\ AnyTermIn(revenue_terms, joined)
            THEN "customer_analysis"
          ELSE IF AnyTermIn(geo_terms, joined) THEN "geographic"
          ELSE IF AnyTermIn(quarterly_terms, joined) THEN "quarterly"
          ELSE IF AnyTermIn(monthly_terms, joined) THEN "monthly_trends"
          ELSE IF Contains(joined, <<"m","o","n","t","h","_","l","a","b","e","l">>)
                  /\ AnyTermIn(revenue_terms, joined)
            THEN "monthly_trends"
          ELSE IF Contains(joined, <<"v","a","r","i","a","n","c","e">>)
                  /\ AnyTermIn(<<<<"r","e","v","e","n","u","e">>, <<"a","m","o","u","n","t">>>>, joined)
            THEN "monthly_trends"
          ELSE IF AnyTermIn(time_terms, joined) /\ AnyTermIn(revenue_terms, joined)
                  /\ df.len <= pattern_row_limit
            THEN "monthly_trends"
          ELSE "default"
  IN  pattern(Join(columns))

\* col.lower() raises AttributeError in _detect_data_pattern for an int label
PatternRaises(df) == \E i \in 1..Len(df.columns) : IsIntLabel(df.columns[i])

(* ------------------------------ inputs --------------------------------- *)
Customer_Name == <<"C","u","s","t","o","m","e","r"," ","N","a","m","e">>
Quarter_3_Revenue == <<"Q","u","a","r","t","e","r"," ","3"," ","R","e","v","e","n","u","e">>
Quarter_4_Revenue == <<"Q","u","a","r","t","e","r"," ","4"," ","R","e","v","e","n","u","e">>
Region == <<"R","e","g","i","o","n">>
Summary == <<"s","u","m","m","a","r","y">>

RowAcme ==
  JObj(<<KV(Customer_Name, JStr(<<"A", "c", "m", "e">>)), KV(Quarter_3_Revenue, JInt(100)),
         KV(Quarter_4_Revenue, JInt(150))>>)
RowBeta ==
  JObj(<<KV(Customer_Name, JStr(<<"B", "e", "t", "a">>)), KV(Quarter_3_Revenue, JInt(200)),
         KV(Quarter_4_Revenue, JInt(180))>>)
RowRegion ==
  JObj(<<KV(Customer_Name, JStr(<<"B", "e", "t", "a">>)), KV(Region, JStr(<<"E", "U">>))>>)

\* []
EmptyList == JArr(<<>>)
\* the two-customer quarterly dataset
QuarterlyData == JArr(<<RowAcme, RowBeta>>)
\* same length and same first record as QuarterlyData, another second record
QuarterlyTwin == JArr(<<RowAcme, RowRegion>>)
\* [1, 2, 3]
ScalarList == JArr(<<JInt(1), JInt(2), JInt(3)>>)
\* {"summary": "ok"}
TopObject == JObj(<<KV(Summary, JStr(<<"o", "k">>))>>)

Datasets == {EmptyList, QuarterlyData, QuarterlyTwin, ScalarList, TopObject}
\* data_key: None (the default) or a tab name
Discriminators == {JNull, JStr(<<"t", "a", "b">>)}
(* ------------------------- generated datasets -------------------------- *)
\* a column of a generated dataset: its name and how its cells are filled
Column(name, kind) == [name |-> name, kind |-> kind]



\* the cell of row i of a column; a "str" column takes twelve labels in turn
Cell(kind, i) ==
  LET Labels ==
        <<<<"J", "a", "n">>,
          <<"F", "e", "b">>,
          <<"M", "a", "r">>,
          <<"A", "p", "r">>,
          <<"M", "a", "y">>,
          <<"J", "u", "n">>,
          <<"J", "u", "l">>,
          <<"A", "u", "g">>,
          <<"S", "e", "p">>,
          <<"O", "c", "t">>,
          <<"N", "o", "v">>,
          <<"D", "e", "c">>>>
  IN
  CASE kind = "int" -> JInt(10 * i)
    [] kind = "neg" -> JInt(0 - i)
    [] kind = "float" -> JFloat(i)
    [] kind = "bool" -> JBool(i % 2 = 1)
    [] kind = "str" -> JStr(Labels[((i - 1) % Len(Labels)) + 1])
    [] kind = "const" -> JStr(<<"x">>)
    [] kind = "mixed" -> IF i = 1 THEN JInt(1) ELSE JStr(<<"n", "/", "a">>)
    [] kind = "gap" -> IF i % 2 = 1 THEN JInt(i) ELSE JNull
    [] kind = "nested" -> JArr(<<JInt(i)>>)
    [] kind = "late" -> JInt(i)
    [] kind = "fifth" -> JInt(i)
    [] kind = "sparse" -> JStr(<<"y">>)
    [] OTHER -> JNull



\* record i of the dataset with the columns cols: a "late" column first
\* appears after the sampled records, a "fifth" one in the last of them, a
\* "sparse" one is missing from the even rows
Row(cols, i) ==
  LET Present(kind, j) ==
        CASE kind = "late" -> j > sample_limit
          [] kind = "fifth" -> j >= sample_limit
          [] kind = "sparse" -> j % 2 = 1
          [] OTHER -> TRUE
      here == SelectSeq(cols, LAMBDA c : Present(c.kind, i))
  IN  JObj([j \in 1..Len(here) |-> KV(here[j].name, Cell(here[j].kind, i))])

\* the dataset of n records with the columns cols
Make(cols, n) == JArr([i \in 1..n |-> Row(cols, i)])

\* column names of business data, each with the usual kind of its values
NamedColumns ==
  <<Column(<<"R","e","v","e","n","u","e">>, "int"),
    Column(<<"T","o","t","a","l"," ","A","m","o","u","n","t">>, "float"),
    Column(<<"U","n","i","t"," ","P","r","i","c","e">>, "int"),
    Column(<<"C","o","s","t">>, "neg"),
    Column(<<"C","u","s","t","o","m","e","r"," ","V","a","l","u","e">>, "int"),
    Column(<<"R","e","v","e","n","u","e"," ","D","a","t","e">>, "int"),
    Column(<<"P","r","i","c","e"," ","R","a","t","e">>, "const"),
    Column(<<"O","r","d","e","r"," ","D","a","t","e">>, "str"),
    Column(<<"M","o","n","t","h">>, "str"),
    Column(<<"Q","u","a","r","t","e","r">>, "str"),
    Column(<<"Y","e","a","r">>, "int"),
    Column(<<"T","i","m","e","s","t","a","m","p">>, "int"),
    Column(<<"R","a","t","e"," ","D","a","t","e">>, "str"),
    Column(<<"G","r","o","w","t","h"," ","R","a","t","e">>, "float"),
    Column(<<"P","e","r","c","e","n","t"," ","S","h","a","r","e">>, "int"),
    Column(<<"N","a","m","e"," ","R","a","t","i","o">>, "int"),
    Column(<<"M","a","r","g","i","n"," ","%">>, "int"),
    Column(<<"C","u","s","t","o","m","e","r"," ","I","D">>, "int"),
    Column(<<"C","l","i","e","n","t">>, "str"),
    Column(<<"N","a","m","e">>, "str"),
    Column(<<"V","a","l","i","d">>, "bool"),
    Column(<<"C","a","t","e","g","o","r","y">>, "const"),
    Column(<<"S","t","a","t","u","s">>, "const"),
    Column(<<"N","o","t","e","s">>, "str"),
    Column(<<"S","c","o","r","e">>, "int"),
    Column(<<"C","o","u","n","t","r","y">>, "str"),
    Column(<<"R","e","g","i","o","n">>, "const"),
    Column(<<"L","o","c","a","t","i","o","n">>, "str"),
    Column(<<"C","h","u","r","n">>, "int"),
    Column(<<"E","x","p","a","n","s","i","o","n">>, "int"),
    Column(<<"N","e","w">>, "int"),
    Column(<<"C","o","m","p","a","n","y">>, "str"),
    Column(<<"M","o","M">>, "float"),
    Column(<<"Q","3">>, "int"),
    Column(<<"J","a","n">>, "int"),
    Column(<<"M","o","n","t","h","_","L","a","b","e","l">>, "str"),
    Column(<<"V","a","r","i","a","n","c","e">>, "int"),
    Column(<<"P","e","r","i","o","d">>, "str"),
    Column(<<"C","o","n","c","e","n","t","r","a","t","i","o","n">>, "float"),
    Column(<<"c","h","u","r","n","_","a","m","o","u","n","t">>, "int"),
    Column(<<"c","u","s","t","o","m","e","r","_","n","a","m","e">>, "str"),
    Column(<<"r","e","v","e","n","u","e">>, "int")>>





\* one column: five names in every kind, of one to three records, and every
\* named column, of three records
SingleColumnData ==
  LET CellKinds == {"int", "float", "bool", "str", "const", "mixed", "gap", "nested", "null",
                    "sparse"}
      VariedNames ==
        {<<"R","e","v","e","n","u","e">>, <<"C","u","s","t","o","m","e","r"," ","V","a","l","u","e">>, <<"P","r","i","c","e"," ","R","a","t","e">>, <<"N","o","t","e","s">>, <<"S","t","a","t","u","s">>}
  IN
  {Make(<<Column(nm, k)>>, n) : nm \in VariedNames, k \in CellKinds, n \in 1..3}
  \cup {Make(<<c>>, 3) : c \in Range(NamedColumns)}


\* two named columns, three records
PairData ==
  LET PairedNames ==
        {<<"R","e","v","e","n","u","e">>,
         <<"T","o","t","a","l"," ","A","m","o","u","n","t">>,
         <<"C","u","s","t","o","m","e","r"," ","V","a","l","u","e">>,
         <<"R","e","v","e","n","u","e"," ","D","a","t","e">>,
         <<"O","r","d","e","r"," ","D","a","t","e">>,
         <<"R","a","t","e"," ","D","a","t","e">>,
         <<"M","o","n","t","h">>,
         <<"Q","u","a","r","t","e","r">>,
         <<"G","r","o","w","t","h"," ","R","a","t","e">>,
         <<"C","u","s","t","o","m","e","r"," ","I","D">>,
         <<"C","l","i","e","n","t">>,
         <<"C","a","t","e","g","o","r","y">>,
         <<"N","o","t","e","s">>,
         <<"C","o","u","n","t","r","y">>,
         <<"C","h","u","r","n">>,
         <<"N","e","w">>,
         <<"C","o","m","p","a","n","y">>,
         <<"M","o","M">>,
         <<"Q","3">>,
         <<"V","a","r","i","a","n","c","e">>,
         <<"P","e","r","i","o","d">>,
         <<"C","o","n","c","e","n","t","r","a","t","i","o","n">>}
      pairs(cols) ==
        {Make(<<cols[p[1]], cols[p[2]]>>, 3) :
           p \in {q \in (1..Len(cols)) \X (1..Len(cols)) : q[1] < q[2]}}
  IN  pairs(SelectSeq(NamedColumns, LAMBDA c : c.name \in PairedNames))

\* monthly series of every length: Month_Label and Revenue
MonthlyData == {Make(<<Column(<<"M","o","n","t","h","_","L","a","b","e","l">>, "str"), Column(<<"R","e","v","e","n","u","e">>, "int")>>, n) : n \in 1..MaxRows}
\* dated series of every length: Order Date and Total Amount
DatedData == {Make(<<Column(<<"O","r","d","e","r"," ","D","a","t","e">>, "str"), Column(<<"T","o","t","a","l"," ","A","m","o","u","n","t">>, "float")>>, n) : n \in 1..MaxRows}

\* the columns churn_amount, customer_name, revenue
BridgeData ==
  Make(<<Column(<<"c","h","u","r","n","_","a","m","o","u","n","t">>, "int"), Column(<<"c","u","s","t","o","m","e","r","_","n","a","m","e">>, "str"), Column(<<"r","e","v","e","n","u","e">>, "int")>>, 3)

\* a wide dataset: the first twelve named columns
WideData == Make(SubSeq(NamedColumns, 1, 12), 3)


\* six records of Notes and Score, with a keyword column of _detect_data_type,
\* one per category, that first appears
\* in the sixth record, or in the fifth
LateData ==
  LET TypedNames ==
        {<<"Q","u","a","r","t","e","r">>, <<"C","h","u","r","n">>, <<"C","o","u","n","t","r","y">>, <<"C","l","i","e","n","t">>, <<"M","o","n","t","h">>}
  IN
  {Make(<<Column(<<"N","o","t","e","s">>, "str"), Column(<<"S","c","o","r","e">>, "int"), Column(nm, k)>>, 6) :
     nm \in TypedNames, k \in {"late", "fifth"}}


CustomerQuarterData ==
  LET NumericKinds == {"int", "float", "neg"}
  IN
  {Make(<<Column(Customer_Name, "str"), Column(Quarter_3_Revenue, k1),
          Column(Quarter_4_Revenue, k2)>>, n) :
     k1 \in NumericKinds, k2 \in NumericKinds, n \in 1..3}

\* records with a scalar field and a nested one: Customer ID and a list
NestedData == Make(<<Column(<<"C","u","s","t","o","m","e","r"," ","I","D">>, "int"), Column(<<"T","a","g","s">>, "nested")>>, 2)

\* [{...}, 1]: a record followed by a scalar
MixedList == JArr(<<RowAcme, JInt(1)>>)

\* lists of lists: [[]], [[], []], [[1, 2], [3, 4]], [[1], [2]], a ragged
\* [[1, 2], [3]], rows of text [["a", "b"], "cd"], a row of nulls
\* [[None], [None]], and [[1], 2], whose second element has no len()
ListsOfLists ==
  LET list(cells) == JArr(cells)
      int(n) == JInt(n)
      text(t) == JStr(t)
  IN  {list(<<list(<<>>)>>),
       list(<<list(<<>>), list(<<>>)>>),
       list(<<list(<<int(1), int(2)>>), list(<<int(3), int(4)>>)>>),
       list(<<list(<<int(1)>>), list(<<int(2)>>)>>),
       list(<<list(<<int(1), int(2)>>), list(<<int(3)>>)>>),
       list(<<list(<<text(<<"a">>), text(<<"b">>)>>), text(<<"c", "d">>)>>),
       list(<<list(<<JNull>>), list(<<JNull>>)>>),
       list(<<list(<<int(1)>>), int(2)>>)}

\* [str(data[0]), "x"] for the data of QuarterlyData: another list of two
\* elements whose first element has the text of the first record
TextTwin == JArr(<<JStr(PyRepr(RowAcme)), JStr(<<"x">>)>>)

\* the inputs the analysis functions are applied to
PureInputs ==
  Datasets \cup
  SingleColumnData \cup PairData \cup MonthlyData \cup DatedData \cup LateData
  \cup CustomerQuarterData \cup {BridgeData, WideData, NestedData, MixedList}
  \cup ListsOfLists \cup {TextTwin}

\* the schema of every input whose analysis returns one, computed once
Schemas == [d \in {x \in Datasets : ~StructureRaises(x)} |-> BuildSchema(d)]
\* the calls analyze_json_schema(json_data, data_key) the model makes
AnalyzeInputs ==
  {<<EmptyList, JNull>>, <<QuarterlyData, JNull>>, <<QuarterlyTwin, JNull>>,
   <<QuarterlyData, JStr(<<"t", "a", "b">>)>>, <<ScalarList, JNull>>, <<TopObject, JNull>>,
   <<TextTwin, JNull>>}
\* the schemas a direct caller of set_schema_cache stores
StoreDatasets == {QuarterlyData, QuarterlyTwin}
\* seconds by which the wall clock moves between two operations: half the
\* TTL, so that an entry is read at an age of exactly cache_ttl
TimeSteps == {cache_ttl \div 2}
\* the latest time of a run
Horizon == MaxSteps * (cache_ttl \div 2)
\* file keys and payloads of load_json_from_s3
\* two file keys whose truncated digests are equal
FileKeys == {JStr(<<"a", "n", "a", "l", "y", "s", "i", "s", "_", "2", "3", "8", "7", "0", ".", "j", "s", "o", "n">>),
             JStr(<<"a", "n", "a", "l", "y", "s", "i", "s", "_", "7", "1", "4", "3", "3", ".", "j", "s", "o", "n">>)}
\* the second argument of get_cache_key in load_json_from_s3
S3Data == JStr(<<"s", "3", "_", "d", "a", "t", "a">>)
Payloads == {1, 2}

(* ----------------------------- CacheManager ---------------------------- *)
\* a & b for a, b < 16, at index 16 * a + b + 1
AndNibble ==
  [i \in 1..256 |->
     LET a == (i - 1) \div 16
         b == (i - 1) % 16
     IN  (8 * ((a \div 8) * (b \div 8)))
         + (4 * (((a \div 4) % 2) * ((b \div 4) % 2)))
         + (2 * (((a \div 2) % 2) * ((b \div 2) % 2)))
         + ((a % 2) * (b % 2))]

\* hashlib.md5(bytes).hexdigest()[:8]: MD5 (RFC 1321) on 32-bit words held
\* as <<high half, low half>>; the first eight hex digits are the first four
\* bytes of the digest, the word a in little-endian order
md5_hex8(bytes) ==
  LET Sines == <<<<55146, 42104>>, <<59591, 46934>>, <<9248, 28891>>, <<49597, 52974>>,
             <<62844, 4015>>, <<18311, 50730>>, <<43056, 17939>>, <<64838, 38145>>,
             <<27008, 39128>>, <<35652, 63407>>, <<65535, 23473>>, <<35164, 55230>>,
             <<27536, 4386>>, <<64920, 29075>>, <<42617, 17294>>, <<18868, 2081>>,
             <<63006, 9570>>, <<49216, 45888>>, <<9822, 23121>>, <<59830, 51114>>,
             <<54831, 4189>>, <<580, 5203>>, <<55457, 59009>>, <<59347, 64456>>,
             <<8673, 52710>>, <<49975, 2006>>, <<62677, 3463>>, <<17754, 5357>>,
             <<43491, 59653>>, <<64751, 41976>>, <<26479, 729>>, <<36138, 19594>>,
             <<65530, 14658>>, <<34673, 63105>>, <<28061, 24866>>, <<64997, 14348>>,
             <<42174, 59972>>, <<19422, 53161>>, <<63163, 19296>>, <<48831, 48240>>,
             <<10395, 32454>>, <<60065, 10234>>, <<54511, 12421>>, <<1160, 7429>>,
             <<55764, 53305>>, <<59099, 39397>>, <<8098, 31992>>, <<50348, 22117>>,
             <<62505, 8772>>, <<17194, 65431>>, <<43924, 9127>>, <<64659, 41017>>,
             <<25947, 22979>>, <<36620, 52370>>, <<65519, 62589>>, <<34180, 24017>>,
             <<28584, 32335>>, <<65068, 59104>>, <<41729, 17172>>, <<19976, 4513>>,
             <<63315, 32386>>, <<48442, 62005>>, <<10967, 53947>>, <<60294, 54161>>>>
      Shifts == <<7, 12, 17, 22, 7, 12, 17, 22, 7, 12, 17, 22, 7, 12, 17, 22,
           5, 9, 14, 20, 5, 9, 14, 20, 5, 9, 14, 20, 5, 9, 14, 20,
           4, 11, 16, 23, 4, 11, 16, 23, 4, 11, 16, 23, 4, 11, 16, 23,
           6, 10, 15, 21, 6, 10, 15, 21, 6, 10, 15, 21, 6, 10, 15, 21>>
      Two == <<1, 2, 4, 8, 16, 32, 64, 128, 256, 512, 1024, 2048, 4096, 8192, 16384,
               32768, 65536>>
      HexDigits == <<"0", "1", "2", "3", "4", "5", "6", "7", "8", "9", "a", "b", "c",
                     "d", "e", "f">>
      And8(a, b) ==
        (16 * AndNibble[(16 * (a \div 16)) + (b \div 16) + 1])
        + AndNibble[(16 * (a % 16)) + (b % 16) + 1]
      And16(a, b) == (256 * And8(a \div 256, b \div 256)) + And8(a % 256, b % 256)
      \* x ^ y = x + y - 2 (x & y)
      Xor16(a, b) == (a + b) - (2 * And16(a, b))
      \* x | y = x + y - (x & y)
      Or16(a, b) == (a + b) - And16(a, b)
      And32(x, y) == <<And16(x[1], y[1]), And16(x[2], y[2])>>
      Xor32(x, y) == <<Xor16(x[1], y[1]), Xor16(x[2], y[2])>>
      Not32(x) == <<65535 - x[1], 65535 - x[2]>>
      Or32(x, y) == <<Or16(x[1], y[1]), Or16(x[2], y[2])>>
      Add32(x, y) ==
        <<(x[1] + y[1] + ((x[2] + y[2]) \div 65536)) % 65536, (x[2] + y[2]) % 65536>>
      \* rotation to the left by s bits, 0 < s < 32
      Rotl32(x, s) ==
        LET rot(h, l, k) ==
              <<((h * Two[k + 1]) % 65536) + (l \div Two[17 - k]),
                ((l * Two[k + 1]) % 65536) + (h \div Two[17 - k])>>
        IN  IF s < 16 THEN rot(x[1], x[2], s) ELSE rot(x[2], x[1], s - 16)
      \* the message padded to whole 64-byte blocks: 0x80, zeros, and the
      \* length in bits as 8 little-endian bytes
      Pad(n) ==
        bytes \o <<128>> \o [i \in 1..((119 - (n % 64)) % 64) |-> 0]
        \o <<(8 * n) % 256, ((8 * n) \div 256) % 256, ((8 * n) \div 65536) % 256,
             0, 0, 0, 0, 0>>
      \* word j (from 0) of block k (from 0), little-endian
      Word(p, k, j) ==
        <<p[64 * k + 4 * j + 3] + (256 * p[64 * k + 4 * j + 4]),
          p[64 * k + 4 * j + 1] + (256 * p[64 * k + 4 * j + 2])>>
      Step(st, p, k, i) ==
        LET f == IF i < 16 THEN Or32(And32(st.b, st.c), And32(Not32(st.b), st.d))
                 ELSE IF i < 32 THEN Or32(And32(st.d, st.b), And32(Not32(st.d), st.c))
                 ELSE IF i < 48 THEN Xor32(Xor32(st.b, st.c), st.d)
                 ELSE Xor32(st.c, Or32(st.b, Not32(st.d)))
            g == IF i < 16 THEN i
                 ELSE IF i < 32 THEN (5 * i + 1) % 16
                 ELSE IF i < 48 THEN (3 * i + 5) % 16
                 ELSE (7 * i) % 16
        IN  [a |-> st.d, d |-> st.c, c |-> st.b,
             b |-> Add32(st.b,
                         Rotl32(Add32(Add32(f, st.a), Add32(Sines[i + 1], Word(p, k, g))),
                                Shifts[i + 1]))]
      \* the steps lo..hi-1 of the main loop, on block k
      RECURSIVE Rounds(_, _, _, _, _)
      Rounds(st, p, k, lo, hi) ==
        IF hi = lo + 1 THEN Step(st, p, k, lo)
        ELSE CHOOSE r \in {Rounds(s, p, k, (lo + hi) \div 2, hi) :
                             s \in {Rounds(st, p, k, lo, (lo + hi) \div 2)}} : TRUE
      RECURSIVE Blocks(_, _, _)
      Blocks(h, p, k) ==
        IF 64 * k >= Len(p) THEN h
        ELSE CHOOSE r \in
               {Blocks([a |-> Add32(h.a, s.a), b |-> Add32(h.b, s.b),
                        c |-> Add32(h.c, s.c), d |-> Add32(h.d, s.d)], p, k + 1) :
                  s \in {Rounds(h, p, k, 0, 64)}} : TRUE
      HexByte(b) == <<HexDigits[(b \div 16) + 1], HexDigits[(b % 16) + 1]>>
      hex(a) == HexByte(a[2] % 256) \o HexByte(a[2] \div 256)
                \o HexByte(a[1] % 256) \o HexByte(a[1] \div 256)
  IN  CHOOSE r \in
        {hex(h.a) : h \in {Blocks([a |-> <<26437, 8961>>, b |-> <<61389, 43913>>,
                                   c |-> <<39098, 56574>>, d |-> <<4146, 21622>>],
                                  q, 0) : q \in {Pad(Len(bytes))}}} : TRUE

\* get_cache_key leaving the arguments out of the key
get_cache_key_noargs(data, args) ==
  LET key(hashes) == hashes[1] \o <<"_">> \o hashes[2]
      digested ==
        <<IF IsList(data) /\ Truthy(data)
            THEN Encode(PyStr(JInt(Len(data.a)))) \o Encode(PyStr(data.a[1]))
            ELSE Encode(PyStr(data)),
          Encode(TupleStr(<<>>))>>
  IN  key([h \in 1..2 |-> md5_hex8(digested[h])])

\* get_cache_key digesting the whole content of a list
get_cache_key_full(data, args) ==
  LET key(hashes) == hashes[1] \o <<"_">> \o hashes[2]
      digested == <<Encode(PyStr(data)), Encode(TupleStr(args))>>
  IN  key([h \in 1..2 |-> md5_hex8(digested[h])])

\* get_cache_key(data, *args): content_hash, the first eight hex digits of
\* the md5 of str(len(data)) + str(data[0]) for a non-empty list and of
\* str(data) otherwise, then "_" and args_hash, those of the md5 of str(args)
get_cache_key(data, args) ==
  LET key(hashes) == hashes[1] \o <<"_">> \o hashes[2]
      \* the bytes digested for content_hash and for args_hash
      digested ==
        <<IF IsList(data) /\ Truthy(data)
            THEN Encode(PyStr(JInt(Len(data.a)))) \o Encode(PyStr(data.a[1]))
            ELSE Encode(PyStr(data)),
          Encode(TupleStr(args))>>
  IN  key([h \in 1..2 |-> md5_hex8(digested[h])])

\* the calls get_cache_key(data, *args) the model makes: those of
\* analyze_json_schema (line 483) and of load_json_from_s3 (line 177)
KeyCalls ==
  {<<i[1], <<i[2]>>>> : i \in AnalyzeInputs}
  \cup {<<d, <<k>>>> : d \in Datasets, k \in Discriminators}
  \cup {<<d, <<JNull>>>> : d \in PureInputs}
  \cup {<<f, <<S3Data>>>> : f \in FileKeys}
\* get_cache_key of each of these calls, computed once
CacheKeys == [c \in KeyCalls |-> get_cache_key(c[1], c[2])]

\* an empty dict
EmptyDict == [k \in {} |-> 0]
\* Python None, as a cached payload or an object reference
None == 0
Refs == 1..MaxObjs

\* del d[key]
DictDel(d, key) == [k \in DOMAIN d \ {key} |-> d[k]]
\* d[key] = value
DictSet(d, key, value) == [k \in DOMAIN d \cup {key} |-> IF k = key THEN value ELSE d[k]]

\* CacheGet with the entry still served at an age of exactly ttl
CacheGet_inclusive(cache, cache_key, t) ==
  IF cache_key \in DOMAIN cache
    THEN LET cached_item == cache[cache_key]
         IN  IF t - cached_item.timestamp <= cache_ttl
               THEN [val |-> cached_item.data, cache |-> cache]
               ELSE [val |-> None, cache |-> DictDel(cache, cache_key)]
    ELSE [val |-> None, cache |-> cache]

\* CacheGet with the TTL comparison turned around
CacheGet_inverted(cache, cache_key, t) ==
  IF cache_key \in DOMAIN cache
    THEN LET cached_item == cache[cache_key]
         IN  IF t - cached_item.timestamp > cache_ttl
               THEN [val |-> cached_item.data, cache |-> cache]
               ELSE [val |-> None, cache |-> DictDel(cache, cache_key)]
    ELSE [val |-> None, cache |-> cache]

\* CacheGet hiding an expired entry without deleting it
CacheGet_masking(cache, cache_key, t) ==
  IF cache_key \in DOMAIN cache
    THEN LET cached_item == cache[cache_key]
         IN  IF t - cached_item.timestamp < cache_ttl
               THEN [val |-> cached_item.data, cache |-> cache]
               ELSE [val |-> None, cache |-> cache]
    ELSE [val |-> None, cache |-> cache]

\* CacheGet restarting the TTL of the entry it serves (sliding expiration)
CacheGet_sliding(cache, cache_key, t) ==
  IF cache_key \in DOMAIN cache
    THEN LET cached_item == cache[cache_key]
         IN  IF t - cached_item.timestamp < cache_ttl
               THEN [val |-> cached_item.data,
                     cache |-> DictSet(cache, cache_key,
                                       [data |-> cached_item.data, timestamp |-> t])]
               ELSE [val |-> None, cache |-> DictDel(cache, cache_key)]
    ELSE [val |-> None, cache |-> cache]

\* CacheGet without the TTL test: an entry is served whatever its age
CacheGet_unexpiring(cache, cache_key, t) ==
  IF cache_key \in DOMAIN cache
    THEN [val |-> cache[cache_key].data, cache |-> cache]
    ELSE [val |-> None, cache |-> cache]

\* get_schema_cache / get_analysis_cache on the dict `cache` at time t: the
\* value returned and the dict afterwards
CacheGet(cache, cache_key, t) ==
  IF cache_key \in DOMAIN cache
    THEN LET cached_item == cache[cache_key]
         IN  IF t - cached_item.timestamp < cache_ttl
               THEN [val |-> cached_item.data, cache |-> cache]
               ELSE [val |-> None, cache |-> DictDel(cache, cache_key)]
    ELSE [val |-> None, cache |-> cache]

\* CacheSet keeping an entry the key already has (dict.setdefault)
CacheSet_keep(cache, cache_key, data, t) ==
  IF cache_key \in DOMAIN cache THEN cache
  ELSE [k \in DOMAIN cache \cup {cache_key} |->
          IF k = cache_key THEN [data |-> data, timestamp |-> t] ELSE cache[k]]

\* set_schema_cache / set_analysis_cache on the dict `cache` at time t
CacheSet(cache, cache_key, data, t) ==
  DictSet(cache, cache_key, [data |-> data, timestamp |-> t])

(* ----------------------- results of the functions --------------------- *)
\* the declared categories generate_tab_layout passes on
AnalysisTypes == {"general", "quarterly", "customer"}

\* the dict analyze_json_schema holds when it calls _suggest_visualizations:
\* the literal of lines 488-495, its six keys, the last two at their
\* placeholders
SchemaBefore(json_data) ==
  [data_type |-> _detect_data_type(json_data),
   structure |-> _analyze_structure(json_data),
   columns |-> _analyze_columns(json_data),
   metrics |-> _identify_metrics(json_data),
   suggested_visualizations |-> <<>>,
   confidence_score |-> 0]



\* what each function returns for each input, computed once
Calls ==
  [d \in PureInputs |->
     LET metrics(raises) ==
           [IdentifyRaises |-> raises,
            _identify_metrics |-> IF raises THEN None ELSE _identify_metrics(d)]
         \* the dict analyze_json_schema holds at line 498, and at line 499,
         \* where 'suggested_visualizations' has been assigned and
         \* 'confidence_score' is still 0
         scored(before, after) ==
           [SchemaBefore |-> before,
            _suggest_visualizations |-> after.suggested_visualizations,
            SchemaSuggested |-> after,
            _calculate_confidence |-> _calculate_confidence(after)]
         suggested(before, visualizations) ==
           scored(before, [before EXCEPT !.suggested_visualizations = visualizations])
         schema(before) == suggested(before, _suggest_visualizations(before))
         pattern(df) ==
           [DataFrame |-> df,
            _detect_data_pattern |->
              [t \in AnalysisTypes |->
                 IF PatternRaises(df) THEN None ELSE _detect_data_pattern(df, t)]]
     IN  [_detect_data_type |-> _detect_data_type(d),
          _analyze_columns |-> _analyze_columns(d)]
         @@ metrics(IdentifyRaises(d))
         @@ (IF Truthy(d) /\ ~StructureRaises(d)
               THEN schema(SchemaBefore(d)) @@ [BuildSchema |-> BuildSchema(d)]
               ELSE [SchemaBefore |-> None, _suggest_visualizations |-> None,
                     SchemaSuggested |-> None, _calculate_confidence |-> None,
                     BuildSchema |-> None])
         @@ (IF ~IsList(d) \/ ~Truthy(d) \/ FrameRaises(d.a)
               THEN [DataFrame |-> None,
                     _detect_data_pattern |-> [t \in AnalysisTypes |-> None]]
               ELSE pattern(DataFrame(d)))]


(* ------------------------------- state --------------------------------- *)
VARIABLES
  now,                  \* datetime.now(), in seconds
  schema_cache,         \* cache_manager.schema_cache: key -> {data, timestamp}
  analysis_cache,       \* cache_manager.analysis_cache
  visualization_cache,  \* cache_manager.visualization_cache
  heap,                 \* the schema dicts alive, by reference
  held,                 \* the reference the caller got from (or gave to) its last call
  ret,                  \* the last operation and what it returned
  schema_sets,          \* per key, the last set_schema_cache since the last clear
  analysis_sets,        \* per key, the last set_analysis_cache since the last clear
  threads,              \* concurrent callers of the cache, mid-operation
  input,                \* the argument a function of the analyzer is applied to
  out                   \* the function applied to it last, and its value

vars == <<now, schema_cache, analysis_cache, visualization_cache, heap, held, ret,
          schema_sets, analysis_sets, threads, input, out>>

\* no argument chosen, no function applied
NoInput == [kind |-> "none"]
NoOut == [op |-> "none"]

\* no key: the operation took or derived none
NoKey == <<>>
\* the simultaneous callers of the cache store
Threads == {1, 2}
\* a caller between two operations: its last call (op), the dict of the
\* cache manager the call worked on (cache) and the dataset it was for, the
\* key, the cached_item its get has read or the entry its set has built and
\* not yet stored (item), what the call returned (val), whether it built the
\* schema (ran), and the entry its store replaced (found)
IdleThread == [pc |-> "idle", key |-> NoKey, item |-> [data |-> None, timestamp |-> 0],
               val |-> None, op |-> "none", cache |-> "schema_cache", data |-> JNull,
               ran |-> FALSE, found |-> None]
\* the keys the direct callers of the store use
StoreKeys == {CacheKeys[<<QuarterlyData, <<JNull>>>>]}
AnalysisKeys == {CacheKeys[<<f, <<S3Data>>>>] : f \in FileKeys}

\* the references a schema cache holds
RefsOf(cache) == {cache[k].data : k \in DOMAIN cache}
\* reference counting: only the objects still referenced stay alive
Collect(h, live) == [r \in DOMAIN h \cap live |-> h[r]]
\* a free reference for a new object
NewRef(live) == CHOOSE r \in Refs \ live : \A q \in Refs \ live : r <= q

\* the record of an operation: its arguments, what it returned (kind, val),
\* whether it ran the analysis (ran), and when
Result(op, key, data, disc, kind, val, ran, note) ==
  [op |-> op, key |-> key, data |-> data, disc |-> disc, kind |-> kind,
   val |-> val, ran |-> ran, note |-> note, at |-> now]

\* History of the sets, kept beside the caches: a set of `cache_key` at time
\* t notes its value and what it found there (nothing, a live entry or an
\* expired one, by the age of the previous set).
NoteSet(sets, cache_key, v, obj, src, t) ==
  DictSet(sets, cache_key,
          [v |-> v, t0 |-> t, obj |-> obj, src |-> src, read_expired |-> FALSE,
           over |-> IF cache_key \notin DOMAIN sets \/ sets[cache_key].read_expired
                      THEN [kind |-> "none", v |-> None]
                    ELSE IF t - sets[cache_key].t0 < cache_ttl
                      THEN [kind |-> "live", v |-> sets[cache_key].v]
                    ELSE [kind |-> "expired", v |-> sets[cache_key].v]])

\* History of the reads: a get of `cache_key` at time t, ttl or more after
\* its last set, is noted as a read of an expired entry.
NoteGet(sets, cache_key, t) ==
  IF cache_key \in DOMAIN sets /\ t - sets[cache_key].t0 >= cache_ttl
    THEN [sets EXCEPT ![cache_key].read_expired = TRUE]
    ELSE sets

Init ==
  /\ now = 0
  /\ schema_cache = EmptyDict
  /\ analysis_cache = EmptyDict
  /\ visualization_cache = EmptyDict
  /\ heap = EmptyDict
  /\ held = None
  /\ ret = [op |-> "init", key |-> NoKey, data |-> JNull, disc |-> JNull,
            kind |-> "none", val |-> None, ran |-> FALSE, note |-> 0, at |-> 0]
  /\ schema_sets = EmptyDict
  /\ analysis_sets = EmptyDict
  /\ threads = [t \in Threads |-> IdleThread]
  /\ input = NoInput
  /\ out = NoOut

\* the wall clock moves between two operations
Advance(dt) ==
  /\ now + dt <= Horizon
  /\ now' = now + dt
  /\ UNCHANGED <<input, out, schema_cache, analysis_cache, visualization_cache, heap, held, ret,
                 schema_sets, analysis_sets, threads>>

\* cache_manager.get_schema_cache(cache_key)
get_schema_cache(cache_key) ==
  LET g == CacheGet(schema_cache, cache_key, now)
  IN  /\ schema_cache' = g.cache
      /\ held' = g.val
      /\ heap' = Collect(heap, RefsOf(g.cache) \cup {g.val})
      /\ ret' = Result("get_schema_cache", cache_key, JNull, JNull,
                       IF g.val = None THEN "none" ELSE "schema", g.val, FALSE, 0)
      /\ schema_sets' = NoteGet(schema_sets, cache_key, now)
      /\ UNCHANGED <<input, out, now, analysis_cache, visualization_cache, analysis_sets, threads>>

\* cache_manager.set_schema_cache(cache_key, data), data being a schema dict
\* the caller has just built from json_data
set_schema_cache(cache_key, json_data) ==
  LET ref == NewRef(RefsOf(schema_cache))
      schema == Schemas[json_data]
  IN  /\ Refs \ RefsOf(schema_cache) # {}
      /\ schema_cache' = CacheSet(schema_cache, cache_key, ref, now)
      /\ heap' = DictSet(Collect(heap, RefsOf(schema_cache')), ref, schema)
      /\ held' = ref
      /\ ret' = Result("set_schema_cache", cache_key, json_data, JNull, "none", None,
                       FALSE, ref)
      /\ schema_sets' = NoteSet(schema_sets, cache_key, ref, schema, json_data, now)
      /\ UNCHANGED <<input, out, now, analysis_cache, visualization_cache, analysis_sets, threads>>

\* cache_manager.get_analysis_cache(cache_key)
get_analysis_cache(cache_key) ==
  LET g == CacheGet(analysis_cache, cache_key, now)
  IN  /\ analysis_cache' = g.cache
      /\ ret' = Result("get_analysis_cache", cache_key, JNull, JNull,
                       IF g.val = None THEN "none" ELSE "data", g.val, FALSE, 0)
      /\ analysis_sets' = NoteGet(analysis_sets, cache_key, now)
      /\ UNCHANGED <<input, out, now, schema_cache, visualization_cache, heap, held, schema_sets,
                     threads>>

\* cache_manager.set_analysis_cache(cache_key, data)
set_analysis_cache(cache_key, data) ==
  /\ analysis_cache' = CacheSet(analysis_cache, cache_key, data, now)
  /\ ret' = Result("set_analysis_cache", cache_key, JNull, JNull, "none", None,
                   FALSE, data)
  /\ analysis_sets' = NoteSet(analysis_sets, cache_key, data, data, JNull, now)
  /\ UNCHANGED <<input, out, now, schema_cache, visualization_cache, heap, held, schema_sets, threads>>

\* clear_cache forgetting the analysis and schema caches
clear_cache_partial ==
  /\ visualization_cache' = EmptyDict
  /\ ret' = [op |-> "clear_cache", key |-> NoKey, data |-> JNull, disc |-> JNull,
             kind |-> "none", val |-> None, ran |-> FALSE,
             note |-> Cardinality({k \in DOMAIN schema_cache :
                                     now - schema_cache[k].timestamp < cache_ttl})
                      + Cardinality({k \in DOMAIN analysis_cache :
                                       now - analysis_cache[k].timestamp < cache_ttl}),
             at |-> now]
  /\ schema_sets' = EmptyDict
  /\ analysis_sets' = EmptyDict
  /\ UNCHANGED <<input, out, now, schema_cache, analysis_cache, heap, held, threads>>

\* cache_manager.clear_cache(); the record notes how many entries younger
\* than ttl it found
clear_cache ==
  LET Young(cache) == {k \in DOMAIN cache : now - cache[k].timestamp < cache_ttl}
  IN
  /\ analysis_cache' = EmptyDict
  /\ visualization_cache' = EmptyDict
  /\ schema_cache' = EmptyDict
  /\ heap' = Collect(heap, {held})
  /\ ret' = Result("clear_cache", NoKey, JNull, JNull, "none", None, FALSE,
                   Cardinality(Young(schema_cache)) + Cardinality(Young(analysis_cache)))
  /\ schema_sets' = EmptyDict
  /\ analysis_sets' = EmptyDict
  /\ UNCHANGED <<input, out, now, held, threads>>

\* analyze_json_schema past its first guard (lines 482-503): the cache
\* lookup, and on a miss the analysis and the store; the record of a miss
\* notes (1) that the lookup found an expired entry and deleted it
analyze_cached(json_data, data_key) ==
  LET lookup(cache_key) ==
        LET g == CacheGet(schema_cache, cache_key, now)
        IN  IF g.val # None
            THEN \* return cached_schema
                 /\ ret' = Result("analyze_json_schema", cache_key, json_data, data_key,
                                  "schema", g.val, FALSE, 0)
                 /\ held' = g.val
                 /\ schema_cache' = g.cache
                 /\ heap' = Collect(heap, RefsOf(g.cache) \cup {g.val})
                 /\ schema_sets' = NoteGet(schema_sets, cache_key, now)
                 /\ UNCHANGED <<input, out, now, analysis_cache, visualization_cache, analysis_sets,
                                threads>>
          ELSE IF StructureRaises(json_data)
            THEN \* AttributeError leaves analyze_json_schema
                 /\ ret' = Result("analyze_json_schema", cache_key, json_data, data_key,
                                  "raise", None, TRUE, 0)
                 /\ schema_cache' = g.cache
                 /\ heap' = Collect(heap, RefsOf(g.cache) \cup {held})
                 /\ schema_sets' = NoteGet(schema_sets, cache_key, now)
                 /\ UNCHANGED <<input, out, now, analysis_cache, visualization_cache, held,
                                analysis_sets, threads>>
          ELSE
            LET ref == NewRef(RefsOf(g.cache))
                store(schema) ==
                  /\ Refs \ RefsOf(g.cache) # {}
                  /\ schema_cache' = CacheSet(g.cache, cache_key, ref, now)
                  /\ heap' = DictSet(Collect(heap, RefsOf(g.cache)), ref, schema)
                  /\ held' = ref
                  /\ ret' = Result("analyze_json_schema", cache_key, json_data, data_key,
                                   "schema", ref, TRUE,
                                   IF cache_key \in DOMAIN schema_cache THEN 1 ELSE 0)
                  /\ schema_sets' = NoteSet(NoteGet(schema_sets, cache_key, now), cache_key,
                                            ref, schema, json_data, now)
                  /\ UNCHANGED <<input, out, now, analysis_cache, visualization_cache,
                                 analysis_sets, threads>>
            IN  store(Calls[json_data].BuildSchema)
  IN  lookup(CacheKeys[<<json_data, <<data_key>>>>])

\* JSONSchemaAnalyzer.analyze_json_schema(json_data, data_key)
analyze_json_schema(json_data, data_key) ==
  IF ~Truthy(json_data)
    THEN \* return None
         /\ ret' = Result("analyze_json_schema", NoKey, json_data, data_key, "none",
                          None, FALSE, 0)
         /\ held' = None
         /\ heap' = Collect(heap, RefsOf(schema_cache))
         /\ UNCHANGED <<input, out, now, schema_cache, analysis_cache, visualization_cache,
                        schema_sets, analysis_sets, threads>>
    ELSE analyze_cached(json_data, data_key)

\* the analyzer and its callers: one logical flow
Next ==
  \/ \E dt \in TimeSteps : Advance(dt)
  \/ \E i \in AnalyzeInputs : analyze_json_schema(i[1], i[2])
  \/ clear_cache

Spec == Init /\ [][Next]_vars

\* the cache store under its direct callers
NextStore ==
  \/ \E dt \in TimeSteps : Advance(dt)
  \/ \E key \in StoreKeys : get_schema_cache(key)
  \/ \E key \in StoreKeys, d \in StoreDatasets : set_schema_cache(key, d)
  \/ \E key \in AnalysisKeys : get_analysis_cache(key)
  \/ \E key \in AnalysisKeys, p \in Payloads : set_analysis_cache(key, p)
  \/ clear_cache

StoreSpec == Init /\ [][NextStore]_vars

(* -------------------- the analysis functions, applied ------------------ *)
InitPure ==
  /\ now = 0
  /\ schema_cache = EmptyDict
  /\ analysis_cache = EmptyDict
  /\ visualization_cache = EmptyDict
  /\ heap = EmptyDict
  /\ held = None
  /\ ret = [op |-> "init", key |-> NoKey, data |-> JNull, disc |-> JNull,
            kind |-> "none", val |-> None, ran |-> FALSE, note |-> 0, at |-> 0]
  /\ schema_sets = EmptyDict
  /\ analysis_sets = EmptyDict
  /\ threads = [t \in Threads |-> IdleThread]
  /\ input \in {[kind |-> "data", data |-> d] : d \in PureInputs}
  /\ out = NoOut

\* what a call returned: the function, its argument, and the value, or that
\* it raised
Returned(op, arg, val) == [op |-> op, arg |-> arg, raised |-> FALSE, val |-> val]
Raised(op, arg) == [op |-> op, arg |-> arg, raised |-> TRUE, val |-> None]

call_detect_data_type ==
  /\ out' = Returned("_detect_data_type", input.data,
                     Calls[input.data]._detect_data_type)
  /\ UNCHANGED <<input, now, schema_cache, analysis_cache, visualization_cache, heap,
                 held, ret, schema_sets, analysis_sets, threads>>

call_analyze_columns ==
  /\ out' = Returned("_analyze_columns", input.data,
                     Calls[input.data]._analyze_columns)
  /\ UNCHANGED <<input, now, schema_cache, analysis_cache, visualization_cache, heap,
                 held, ret, schema_sets, analysis_sets, threads>>

call_identify_metrics ==
  LET result(calls) ==
        IF calls.IdentifyRaises
          THEN Raised("_identify_metrics", input.data)
          ELSE Returned("_identify_metrics", input.data, calls._identify_metrics)
  IN  /\ out' = result(Calls[input.data])
      /\ UNCHANGED <<input, now, schema_cache, analysis_cache, visualization_cache,
                     heap, held, ret, schema_sets, analysis_sets, threads>>

\* analyze_json_schema reaches line 498 when _analyze_structure did not raise
call_suggest_visualizations ==
  LET result(calls) ==
        Returned("_suggest_visualizations", calls.SchemaBefore,
                 calls._suggest_visualizations)
  IN  /\ Truthy(input.data) /\ ~StructureRaises(input.data)
      /\ out' = result(Calls[input.data])
      /\ UNCHANGED <<input, now, schema_cache, analysis_cache, visualization_cache,
                     heap, held, ret, schema_sets, analysis_sets, threads>>

call_calculate_confidence ==
  LET result(calls) ==
        Returned("_calculate_confidence", calls.SchemaSuggested,
                 calls._calculate_confidence)
  IN  /\ Truthy(input.data) /\ ~StructureRaises(input.data)
      /\ out' = result(Calls[input.data])
      /\ UNCHANGED <<input, now, schema_cache, analysis_cache, visualization_cache,
                     heap, held, ret, schema_sets, analysis_sets, threads>>

\* _generate_visualizations as far as its call of _detect_data_pattern
\* (lines 1023-1031)
_generate_visualizations(json_data, analysis_type) ==
  /\ out' = IF ~IsList(json_data) \/ ~Truthy(json_data)
              THEN Returned("_generate_visualizations", analysis_type, None)
            ELSE IF FrameRaises(json_data.a) \/ PatternRaises(DataFrame(json_data))
              THEN Raised("_detect_data_pattern", analysis_type)
            ELSE Returned("_detect_data_pattern", analysis_type,
                          Calls[json_data]._detect_data_pattern[analysis_type])
  /\ UNCHANGED <<input, now, schema_cache, analysis_cache, visualization_cache, heap,
                 held, ret, schema_sets, analysis_sets, threads>>

\* the analysis functions and the analyzer, on one input
NextPure ==
  \/ call_detect_data_type
  \/ call_analyze_columns
  \/ call_identify_metrics
  \/ call_suggest_visualizations
  \/ call_calculate_confidence
  \/ \E analysis_type \in AnalysisTypes :
        _generate_visualizations(input.data, analysis_type)
  \/ analyze_json_schema(input.data, JNull)

PureSpec == InitPure /\ [][NextPure]_vars

(* ------------------------- the cache store ----------------------------- *)
\* what the last operation, a get of `cache` whose sets are `sets`, returned
\* against the last set of its key
GetAgrees(sets, isSchema) ==
  ret.key \in DOMAIN sets =>
    LET s == sets[ret.key]
    IN  IF ret.at - s.t0 < cache_ttl
          THEN ret.val = s.v /\ (isSchema => heap[ret.val] = s.obj)
          ELSE ret.val = None

\* C1: after set(key, v) at time t0, with no later set or clear, a get of the
\* key returns v while t - t0 < cache_ttl and None once t - t0 >= cache_ttl,
\* also at exactly t - t0 = cache_ttl; for the schema and the analysis cache.
C1_TtlCorrect ==
  /\ ret.op = "get_schema_cache" => GetAgrees(schema_sets, TRUE)
  /\ ret.op = "get_analysis_cache" => GetAgrees(analysis_sets, FALSE)

\* a get_schema_cache exactly ttl after the set of its key returned None
C1_Witness ==
  /\ ret.op = "get_schema_cache"
  /\ ret.key \in DOMAIN schema_sets
  /\ ret.at - schema_sets[ret.key].t0 = cache_ttl
  /\ ret.val = None

\* C2: a get of an expired entry deletes it: from then on, until the key is
\* set again, the key is not in the dict and a get of it returns None, with
\* or without time passing.
C2_EvictionDurable ==
  /\ \A k \in DOMAIN schema_sets :
       schema_sets[k].read_expired => k \notin DOMAIN schema_cache
  /\ \A k \in DOMAIN analysis_sets :
       analysis_sets[k].read_expired => k \notin DOMAIN analysis_cache
  /\ (ret.op = "get_schema_cache" /\ ret.key \in DOMAIN schema_sets
        /\ schema_sets[ret.key].read_expired) => ret.val = None
  /\ (ret.op = "get_analysis_cache" /\ ret.key \in DOMAIN analysis_sets
        /\ analysis_sets[ret.key].read_expired) => ret.val = None

\* an expired schema entry was read, and the clock has not moved since
C2_Witness ==
  /\ ret.op = "get_schema_cache"
  /\ ret.key \in DOMAIN schema_sets
  /\ schema_sets[ret.key].read_expired
  /\ ret.at = now
  /\ ret.key \notin DOMAIN schema_cache

\* C8: set(key, v) overwrites whatever the key had: right after it the dict
\* holds for the key the one entry {data: v, timestamp: time of this set},
\* and a get less than ttl after the latest set returns the latest value.
C8_SetOverwrites ==
  /\ ret.op = "set_analysis_cache" =>
       /\ ret.key \in DOMAIN analysis_cache
       /\ analysis_cache[ret.key] = [data |-> ret.note, timestamp |-> ret.at]
  /\ ret.op = "set_schema_cache" =>
       /\ ret.key \in DOMAIN schema_cache
       /\ schema_cache[ret.key] = [data |-> ret.note, timestamp |-> ret.at]
       /\ heap[ret.note] = BuildSchema(ret.data)
  /\ (ret.op = "get_analysis_cache" /\ ret.key \in DOMAIN analysis_sets
        /\ ret.at - analysis_sets[ret.key].t0 < cache_ttl) =>
       ret.val = analysis_sets[ret.key].v
  /\ (ret.op = "get_schema_cache" /\ ret.key \in DOMAIN schema_sets
        /\ ret.at - schema_sets[ret.key].t0 < cache_ttl) =>
       heap[ret.val] = schema_sets[ret.key].obj

\* a set has just replaced a live entry that held another value
C8_Witness ==
  /\ ret.op = "set_analysis_cache"
  /\ analysis_sets[ret.key].over.kind = "live"
  /\ analysis_sets[ret.key].over.v # ret.note
  /\ analysis_cache[ret.key].data = ret.note

\* C9: right after clear_cache the analysis, schema and visualization caches
\* are empty, and a get of a key not set since the last clear returns None.
C9_ClearDropsAll ==
  /\ ret.op = "clear_cache" =>
       /\ analysis_cache = EmptyDict
       /\ schema_cache = EmptyDict
       /\ visualization_cache = EmptyDict
  /\ (ret.op = "get_schema_cache" /\ ret.key \notin DOMAIN schema_sets) =>
       ret.val = None
  /\ (ret.op = "get_analysis_cache" /\ ret.key \notin DOMAIN analysis_sets) =>
       ret.val = None

\* clear_cache has just dropped entries younger than ttl
C9_Witness ==
  /\ ret.op = "clear_cache"
  /\ ret.note = 2
  /\ ret.at = now
  /\ DOMAIN schema_cache = {}
  /\ DOMAIN analysis_cache = {}

(* ------------------- a caller that keeps the schema -------------------- *)
\* a confidence score the analyzer never computes
Tampered == 0 - 1

\* the caller assigns schema['confidence_score'] in the dict it was handed
CallerMutate ==
  /\ held # None
  /\ heap[held].confidence_score # Tampered
  /\ heap' = [heap EXCEPT ![held].confidence_score = Tampered]
  /\ UNCHANGED <<input, out, now, schema_cache, analysis_cache, visualization_cache, held, ret,
                 schema_sets, analysis_sets, threads>>

NextAlias ==
  \/ \E dt \in TimeSteps : Advance(dt)
  \/ \E d \in {QuarterlyData, TopObject} : analyze_json_schema(d, JNull)
  \/ clear_cache
  \/ CallerMutate

AliasSpec == Init /\ [][NextAlias]_vars

(* ------------------------ concurrent callers --------------------------- *)
\* self.analysis_cache or self.schema_cache, by the name of the attribute
Cache(name) == IF name = "analysis_cache" THEN analysis_cache ELSE schema_cache

\* a step writes the dict d to the attribute `name` and leaves the other
\* cache as it is
CacheBecomes(name, d) ==
  IF name = "analysis_cache"
    THEN analysis_cache' = d /\ schema_cache' = schema_cache
    ELSE schema_cache' = d /\ analysis_cache' = analysis_cache

\* the references the threads hold in their locals: the schema dicts of the
\* calls on the schema cache (the analysis cache holds plain payloads)
ThreadRefs(th) ==
  UNION {{th[t].item.data, th[t].val} :
           t \in {u \in Threads : th[u].cache = "schema_cache"}}

\* a thread enters get_schema_cache(cache_key) or get_analysis_cache(cache_key),
\* by the dict `name` the method reads
T_get_call(t, name, cache_key) ==
  /\ threads[t].pc = "idle"
  /\ threads' = [threads EXCEPT ![t] = [IdleThread EXCEPT !.pc = "get_test",
                                                          !.key = cache_key,
                                                          !.op = "get",
                                                          !.cache = name]]
  /\ heap' = Collect(heap, RefsOf(schema_cache) \cup ThreadRefs(threads'))
  /\ UNCHANGED <<input, out, now, schema_cache, analysis_cache, visualization_cache, held, ret,
                 schema_sets, analysis_sets>>

\* a thread enters analyze_json_schema(json_data, None) and, its data being
\* truthy, get_schema_cache(cache_key) (lines 479-484)
T_analyze_call(t, json_data) ==
  /\ threads[t].pc = "idle"
  /\ Truthy(json_data)
  /\ threads' = [threads EXCEPT ![t] =
                   [IdleThread EXCEPT !.pc = "get_test",
                                      !.key = CacheKeys[<<json_data, <<JNull>>>>],
                                      !.op = "analyze",
                                      !.data = json_data]]
  /\ heap' = Collect(heap, RefsOf(schema_cache) \cup ThreadRefs(threads'))
  /\ UNCHANGED <<input, out, now, schema_cache, analysis_cache, visualization_cache, held, ret,
                 schema_sets, analysis_sets>>

\* where a get that returns None leaves the thread: back in its caller, or,
\* inside analyze_json_schema, past `if cached_schema:` at the analysis
AfterMiss(th) == IF th.op = "analyze" THEN "build" ELSE "idle"

\* if cache_key in self.schema_cache:  (else: return None); the same test on
\* self.analysis_cache in get_analysis_cache (line 705)
T_get_test(t) ==
  /\ threads[t].pc = "get_test"
  /\ threads' = [threads EXCEPT ![t].pc =
                   IF threads[t].key \in DOMAIN Cache(threads[t].cache) THEN "get_read"
                   ELSE AfterMiss(threads[t])]
  /\ UNCHANGED <<input, out, now, schema_cache, analysis_cache, visualization_cache, heap, held, ret,
                 schema_sets, analysis_sets>>

\* cached_item = self.schema_cache[cache_key]  (KeyError if the key is gone);
\* line 706 in get_analysis_cache
T_get_read(t) ==
  /\ threads[t].pc = "get_read"
  /\ threads' = IF threads[t].key \in DOMAIN Cache(threads[t].cache)
                  THEN [threads EXCEPT ![t].pc = "get_ttl",
                                       ![t].item = Cache(threads[t].cache)[threads[t].key]]
                  ELSE [threads EXCEPT ![t].pc = "raised"]
  /\ UNCHANGED <<input, out, now, schema_cache, analysis_cache, visualization_cache, heap, held, ret,
                 schema_sets, analysis_sets>>

\* if (datetime.now() - cached_item['timestamp']).total_seconds() < self.cache_ttl:
\*     return cached_item['data']
\* (lines 726-727, and 708-709 in get_analysis_cache)
T_get_ttl(t) ==
  /\ threads[t].pc = "get_ttl"
  /\ threads' = IF now - threads[t].item.timestamp < cache_ttl
                  THEN [threads EXCEPT ![t].pc = "idle",
                                       ![t].val = threads[t].item.data,
                                       ![t].item = IdleThread.item]
                  ELSE [threads EXCEPT ![t].pc = "get_del"]
  /\ UNCHANGED <<input, out, now, schema_cache, analysis_cache, visualization_cache, heap, held, ret,
                 schema_sets, analysis_sets>>

\* del self.schema_cache[cache_key]  (KeyError if the key is gone); return None
\* (lines 729-730, and 712-713 in get_analysis_cache)
T_get_del(t) ==
  /\ threads[t].pc = "get_del"
  /\ IF threads[t].key \in DOMAIN Cache(threads[t].cache)
       THEN /\ CacheBecomes(threads[t].cache,
                            DictDel(Cache(threads[t].cache), threads[t].key))
            /\ threads' = [threads EXCEPT ![t].pc = AfterMiss(threads[t]),
                                           ![t].item = IdleThread.item]
       ELSE /\ UNCHANGED <<schema_cache, analysis_cache>>
            /\ threads' = [threads EXCEPT ![t].pc = "raised"]
  /\ heap' = Collect(heap, RefsOf(schema_cache') \cup ThreadRefs(threads'))
  /\ UNCHANGED <<input, out, now, visualization_cache, held, ret, schema_sets,
                 analysis_sets>>

\* a thread enters set_schema_cache(cache_key, schema) and builds the entry
\* {'data': data, 'timestamp': datetime.now()}: the clock is read here
\* (lines 735-736), before the entry is stored
T_set(t, cache_key, json_data) ==
  LET live == RefsOf(schema_cache) \cup ThreadRefs(threads)
      ref == NewRef(live)
  IN  /\ threads[t].pc = "idle"
      /\ Refs \ live # {}
      /\ threads' = [threads EXCEPT ![t] =
                       [IdleThread EXCEPT !.pc = "set_store",
                                          !.key = cache_key,
                                          !.op = "set",
                                          !.data = json_data,
                                          !.item = [data |-> ref, timestamp |-> now]]]
      /\ heap' = DictSet(Collect(heap, RefsOf(schema_cache) \cup ThreadRefs(threads')),
                         ref, Schemas[json_data])
      /\ UNCHANGED <<input, out, now, schema_cache, analysis_cache, visualization_cache, held,
                     ret, schema_sets, analysis_sets>>

\* a thread enters set_analysis_cache(cache_key, data) and builds the entry,
\* reading the clock (lines 718-719), before the entry is stored
T_set_analysis(t, cache_key, data) ==
  /\ threads[t].pc = "idle"
  /\ threads' = [threads EXCEPT ![t] =
                   [IdleThread EXCEPT !.pc = "set_store",
                                      !.key = cache_key,
                                      !.op = "set",
                                      !.cache = "analysis_cache",
                                      !.item = [data |-> data, timestamp |-> now]]]
  /\ heap' = Collect(heap, RefsOf(schema_cache) \cup ThreadRefs(threads'))
  /\ UNCHANGED <<input, out, now, schema_cache, analysis_cache, visualization_cache, held,
                 ret, schema_sets, analysis_sets>>

\* self.schema_cache[cache_key] = the entry built (line 734), one dict store;
\* line 717 in set_analysis_cache
T_set_store(t) ==
  /\ threads[t].pc = "set_store"
  /\ CacheBecomes(threads[t].cache,
                  CacheSet(Cache(threads[t].cache), threads[t].key,
                           threads[t].item.data, threads[t].item.timestamp))
  /\ threads' = [threads EXCEPT ![t].pc = "idle", ![t].item = IdleThread.item]
  /\ heap' = Collect(heap, RefsOf(schema_cache') \cup ThreadRefs(threads'))
  /\ UNCHANGED <<input, out, now, visualization_cache, held, ret, schema_sets,
                 analysis_sets>>

\* a thread in analyze_json_schema whose lookup returned None builds the
\* schema of its data, a computation on its own locals (lines 488-500),
\* enters set_schema_cache and builds the entry, reading the clock
\* (lines 735-736)
T_analyze_build(t) ==
  LET live == RefsOf(schema_cache) \cup ThreadRefs(threads)
      ref == NewRef(live)
  IN  /\ threads[t].pc = "build"
      /\ Refs \ live # {}
      /\ threads' = [threads EXCEPT ![t].pc = "store", ![t].ran = TRUE,
                                    ![t].item = [data |-> ref, timestamp |-> now]]
      /\ heap' = DictSet(Collect(heap, RefsOf(schema_cache) \cup ThreadRefs(threads')),
                         ref, Schemas[threads[t].data])
      /\ UNCHANGED <<input, out, now, schema_cache, analysis_cache, visualization_cache, held,
                     ret, schema_sets, analysis_sets>>

\* T_analyze_store leaving alone an entry another caller stored meanwhile
\* (a store that re-checks the key)
T_analyze_store_once(t) ==
  LET cache_key == threads[t].key
  IN  /\ threads[t].pc = "store"
      /\ schema_cache' = CacheSet_keep(schema_cache, cache_key, threads[t].item.data,
                                       threads[t].item.timestamp)
      /\ threads' = [threads EXCEPT ![t].pc = "idle",
                                    ![t].val = schema_cache'[cache_key].data,
                                    ![t].item = IdleThread.item,
                                    ![t].found = IF cache_key \in DOMAIN schema_cache
                                                   THEN schema_cache[cache_key].data
                                                   ELSE None]
      /\ heap' = Collect(heap, RefsOf(schema_cache') \cup ThreadRefs(threads'))
      /\ UNCHANGED <<input, out, now, analysis_cache, visualization_cache, held, ret,
                     schema_sets, analysis_sets>>

\* the thread stores the entry it built, one dict store (line 734), and
\* analyze_json_schema returns the schema (line 503)
T_analyze_store(t) ==
  LET cache_key == threads[t].key
  IN  /\ threads[t].pc = "store"
      /\ schema_cache' = CacheSet(schema_cache, cache_key, threads[t].item.data,
                                  threads[t].item.timestamp)
      /\ threads' = [threads EXCEPT ![t].pc = "idle",
                                    ![t].val = threads[t].item.data,
                                    ![t].item = IdleThread.item,
                                    ![t].found = IF cache_key \in DOMAIN schema_cache
                                                   THEN schema_cache[cache_key].data
                                                   ELSE None]
      /\ heap' = Collect(heap, RefsOf(schema_cache') \cup ThreadRefs(threads'))
      /\ UNCHANGED <<input, out, now, analysis_cache, visualization_cache, held, ret,
                     schema_sets, analysis_sets>>

\* a thread enters clear_cache() and runs self.analysis_cache.clear()
\* (line 741)
T_clear(t) ==
  /\ threads[t].pc = "idle"
  /\ analysis_cache' = EmptyDict
  /\ threads' = [threads EXCEPT ![t] = [IdleThread EXCEPT !.pc = "clear_visualization",
                                                          !.op = "clear"]]
  /\ heap' = Collect(heap, RefsOf(schema_cache) \cup ThreadRefs(threads'))
  /\ UNCHANGED <<input, out, now, schema_cache, visualization_cache, held, ret,
                 schema_sets, analysis_sets>>

\* self.visualization_cache.clear()  (line 742)
T_clear_visualization(t) ==
  /\ threads[t].pc = "clear_visualization"
  /\ visualization_cache' = EmptyDict
  /\ threads' = [threads EXCEPT ![t].pc = "clear_schema"]
  /\ UNCHANGED <<input, out, now, schema_cache, analysis_cache, heap, held, ret,
                 schema_sets, analysis_sets>>

\* self.schema_cache.clear()  (line 743), and clear_cache returns
T_clear_schema(t) ==
  /\ threads[t].pc = "clear_schema"
  /\ schema_cache' = EmptyDict
  /\ threads' = [threads EXCEPT ![t].pc = "idle"]
  /\ heap' = Collect(heap, ThreadRefs(threads'))
  /\ UNCHANGED <<input, out, now, analysis_cache, visualization_cache, held, ret,
                 schema_sets, analysis_sets>>

\* two callers of the cache manager and of the analyzer, no step of one
\* atomic with the next; between two steps the clock may move by the ttl, so
\* that an entry is as old as it was or expired
NextConc ==
  \/ Advance(cache_ttl)
  \/ \E t \in Threads, key \in StoreKeys : T_get_call(t, "schema_cache", key)
  \/ \E t \in Threads, key \in AnalysisKeys : T_get_call(t, "analysis_cache", key)
  \/ \E t \in Threads : T_get_test(t)
  \/ \E t \in Threads : T_get_read(t)
  \/ \E t \in Threads : T_get_ttl(t)
  \/ \E t \in Threads : T_get_del(t)
  \/ \E t \in Threads, key \in StoreKeys : T_set(t, key, QuarterlyData)
  \/ \E t \in Threads, key \in AnalysisKeys : T_set_analysis(t, key, 1)
  \/ \E t \in Threads : T_set_store(t)
  \/ \E t \in Threads : T_analyze_call(t, QuarterlyData)
  \/ \E t \in Threads : T_analyze_build(t)
  \/ \E t \in Threads : T_analyze_store(t)
  \/ \E t \in Threads : T_clear(t)
  \/ \E t \in Threads : T_clear_visualization(t)
  \/ \E t \in Threads : T_clear_schema(t)

ConcSpec == Init /\ [][NextConc]_vars

(* ---------------------------- the analyzer ----------------------------- *)
\* the schema behind a reference, None standing for itself
SchemaAt(h, r) == IF r = None THEN [confidence_score |-> None] ELSE h[r]

\* C3, as claimed: two calls analyze_json_schema(D, k) with no clear_cache in
\* between and less than ttl between them return the identical schema, and
\* the second does not run the analysis.
C3_TwoCallsWithinTtl ==
  [][\A i \in AnalyzeInputs :
       (/\ analyze_json_schema(i[1], i[2])
        /\ ret.op = "analyze_json_schema" /\ ret.data = i[1] /\ ret.disc = i[2]
        /\ ret.kind # "raise"
        /\ now - ret.at < cache_ttl)
       => (/\ ret'.kind = ret.kind
           /\ SchemaAt(heap', ret'.val) = SchemaAt(heap, ret.val)
           /\ ~ret'.ran)]_vars

\* C3, amended: a call analyze_json_schema(D, k) made less than ttl after the
\* entry of its key was stored, with no clear_cache since, returns the stored
\* schema (the very dict that was stored) and does not run the analysis; so
\* two calls return the identical schema when no clear_cache and no expiry of
\* the entry falls between them.
C3_ReuseWhileEntryLive ==
  [][\A i \in AnalyzeInputs :
       LET key == CacheKeys[<<i[1], <<i[2]>>>>]
       IN  (/\ analyze_json_schema(i[1], i[2])
            /\ Truthy(i[1])
            /\ key \in DOMAIN schema_sets
            /\ now - schema_sets[key].t0 < cache_ttl)
           => (/\ ret'.kind = "schema"
               /\ ret'.val = schema_sets[key].v
               /\ heap'[ret'.val] = schema_sets[key].obj
               /\ ~ret'.ran
               /\ schema_cache' = schema_cache
               /\ (ret.op = "analyze_json_schema" /\ ret.key = key
                     => ret'.val = ret.val /\ heap'[ret'.val] = heap[ret.val]))]_vars

\* a call was answered from an entry stored at an earlier time
C3_Witness ==
  /\ ret.op = "analyze_json_schema"
  /\ ret.kind = "schema"
  /\ ~ret.ran
  /\ ret.key \in DOMAIN schema_sets
  /\ schema_sets[ret.key].t0 < ret.at
  /\ heap[ret.val] = BuildSchema(ret.data)

\* C4: analyzing [] returns a schema of data type unknown, with no columns
\* and a confidence score of 0.
C4_EmptyGivesUnknownSchema ==
  (ret.op = "analyze_json_schema" /\ ret.data = EmptyList) =>
    /\ ret.kind = "schema"
    /\ heap[ret.val].data_type = "unknown"
    /\ heap[ret.val].columns = <<>>
    /\ heap[ret.val].confidence_score = 0

\* [] has just been analyzed and the caller was handed None: no analysis
\* ran and no key was derived
C4_Witness ==
  /\ ret.op = "analyze_json_schema"
  /\ ret.data = EmptyList
  /\ ret.kind = "none"
  /\ ret.val = None
  /\ held = None
  /\ ~ret.ran
  /\ ret.key = NoKey

\* C5: analyze_json_schema never raises: every non-empty input, a list of
\* scalars or a top-level object included, yields a schema.
C5_AlwaysReturnsSchema ==
  (ret.op = "analyze_json_schema" /\ Truthy(ret.data)) => ret.kind = "schema"

\* Collision of the cheap fingerprint: two distinct non-empty lists of equal
\* length and equal first element
Collide(d1, d2) ==
  /\ IsList(d1) /\ IsList(d2) /\ d1 # d2
  /\ Len(d1.a) > 0 /\ Len(d1.a) = Len(d2.a)
  /\ d1.a[1] = d2.a[1]

\* C10: two distinct lists of equal length and equal first element get the
\* same key under the same discriminator, and a call for one of them made
\* less than ttl after the other's schema was stored, with no clear since,
\* returns that other schema without analyzing its own data.
C10_CollisionReuse ==
  /\ \A d1 \in Datasets, d2 \in Datasets, k \in Discriminators :
       Collide(d1, d2) => CacheKeys[<<d1, <<k>>>>] = CacheKeys[<<d2, <<k>>>>]
  /\ (/\ ret.op = "analyze_json_schema"
      /\ ret.key \in DOMAIN schema_sets
      /\ Collide(schema_sets[ret.key].src, ret.data)
      /\ ret.at - schema_sets[ret.key].t0 < cache_ttl)
     => (/\ ret.kind = "schema"
         /\ ~ret.ran
         /\ heap[ret.val] = BuildSchema(schema_sets[ret.key].src))

\* QuarterlyTwin was answered with the schema of QuarterlyData, which is not
\* the schema of QuarterlyTwin
C10_Witness ==
  /\ ret.op = "analyze_json_schema"
  /\ ret.data = QuarterlyTwin
  /\ ret.kind = "schema"
  /\ heap[ret.val] = BuildSchema(QuarterlyData)
  /\ BuildSchema(QuarterlyData) # BuildSchema(QuarterlyTwin)

\* C7: what the cache holds for a key is what was set for it: nothing a
\* caller does to a schema it was handed changes the cached schema, which
\* changes only by a set replacing the entry.
C7_CacheHoldsWhatWasSet ==
  \A k \in DOMAIN schema_cache :
    k \in DOMAIN schema_sets => heap[schema_cache[k].data] = schema_sets[k].obj

\* C6: with simultaneous callers no get raises, and a get returns None or a
\* value that was set: a schema from the schema cache, a payload from the
\* analysis cache.
C6_ConcurrentCallersSafe ==
  \A t \in Threads :
    /\ threads[t].pc # "raised"
    /\ threads[t].val # None =>
         IF threads[t].cache = "analysis_cache"
           THEN threads[t].val \in Payloads
           ELSE heap[threads[t].val] = Schemas[QuarterlyData]

\* C11: the discriminator separates the keys: after analyze_json_schema(D, k1)
\* stored the only entry there is, a call for the same D (or a list of equal
\* fingerprint) under another discriminator k2 gets another key, misses, runs
\* the analysis and stores a second entry, a dict of its own, leaving the
\* first entry as it was.
C11_DiscriminatorSeparates ==
  [][\A i \in AnalyzeInputs :
       (/\ analyze_json_schema(i[1], i[2])
        /\ Truthy(i[1]) /\ ~StructureRaises(i[1])
        /\ ret.op = "analyze_json_schema" /\ ret.kind = "schema"
        /\ ret.data = i[1] \/ Collide(ret.data, i[1])
        /\ ret.disc # i[2]
        /\ DOMAIN schema_sets = {ret.key}
        /\ ret.key \in DOMAIN schema_cache)
       => (/\ ret'.kind = "schema" /\ ret'.ran
           /\ ret'.key # ret.key
           /\ DOMAIN schema_cache' = {ret.key, ret'.key}
           /\ schema_cache'[ret.key] = schema_cache[ret.key]
           /\ heap'[schema_cache'[ret.key].data] = heap[schema_cache[ret.key].data]
           /\ schema_cache'[ret'.key].data # schema_cache'[ret.key].data
           /\ schema_cache'[ret'.key].timestamp = now)]_vars

\* QuarterlyData was analyzed under "tab" with its entry under None in the
\* cache: both entries are there
C11_Witness ==
  /\ ret.op = "analyze_json_schema"
  /\ ret.data = QuarterlyData /\ ret.disc = JStr(<<"t", "a", "b">>)
  /\ ret.ran
  /\ DOMAIN schema_sets = {ret.key, CacheKeys[<<QuarterlyData, <<JNull>>>>]}
  /\ DOMAIN schema_cache = DOMAIN schema_sets
  /\ ret.key # CacheKeys[<<QuarterlyData, <<JNull>>>>]
  /\ schema_sets[CacheKeys[<<QuarterlyData, <<JNull>>>>]].t0 < ret.at

(* ---------------- the analysis functions: what they return ------------- *)
\* C12: every schema analyze_json_schema returns carries an integer
\* confidence_score from 0 to 100, however many columns and memberships in
\* metric groups its dataset has.
C12_ConfidenceBounds ==
  (ret.op = "analyze_json_schema" /\ ret.kind = "schema")
    => heap[ret.val].confidence_score \in 0..100

\* the wide dataset was analyzed: more than ten columns and more than six
\* memberships, where both capped terms are at their caps
C12_Witness ==
  LET metrics == heap[ret.val].metrics
  IN  /\ ret.op = "analyze_json_schema" /\ ret.kind = "schema" /\ ret.ran
      /\ ret.data = WideData
      /\ Len(heap[ret.val].columns) > 10
      /\ Len(metrics.revenue_columns) + Len(metrics.date_columns)
         + Len(metrics.categorical_columns) + Len(metrics.percentage_columns)
         + Len(metrics.id_columns) > 6
      /\ heap[ret.val].confidence_score = 100

\* C13: no column is in more than one of revenue_columns, date_columns,
\* percentage_columns and id_columns, and a column of categorical_columns is
\* in none of the four.
C13_GroupsExclusive ==
  LET KeywordGroups ==
        {"revenue_columns", "date_columns", "percentage_columns", "id_columns"}
  IN  (out.op = "_identify_metrics" /\ ~out.raised)
        => /\ \A g1 \in KeywordGroups : \A g2 \in KeywordGroups \ {g1} :
                Range(out.val[g1]) \cap Range(out.val[g2]) = {}
           /\ \A g \in KeywordGroups :
                Range(out.val.categorical_columns) \cap Range(out.val[g]) = {}

\* Customer Value and Category: a numeric column whose name holds a revenue
\* and an id keyword, and a string column of one value in three records
C13_Witness ==
  /\ out.op = "_identify_metrics" /\ ~out.raised
  /\ out.val.revenue_columns = <<<<"C","u","s","t","o","m","e","r"," ","V","a","l","u","e">>>>
  /\ out.val.id_columns = <<>>
  /\ out.val.categorical_columns = <<<<"C","a","t","e","g","o","r","y">>>>

\* the tag of the first rule of the pattern table, in its order, that the
\* joined lower-cased column names of a frame match; "default" when none does
FirstMatch(df) ==
  LET cols == df.columns
      joined == Join([i \in 1..Len(cols) |-> Lower(cols[i])])
      order == <<"revenue_bridge", "customer_analysis", "geographic", "quarterly",
                 "monthly_trends">>
      matches(tag) ==
        CASE tag = "revenue_bridge" -> AnyTermIn(bridge_terms, joined)
          [] tag = "customer_analysis" ->
               AnyTermIn(customer_terms, joined) /\ AnyTermIn(revenue_terms, joined)
          [] tag = "geographic" -> AnyTermIn(geo_terms, joined)
          [] tag = "quarterly" -> AnyTermIn(quarterly_terms, joined)
          [] tag = "monthly_trends" ->
               \/ AnyTermIn(monthly_terms, joined)
               \/ Contains(joined, <<"m","o","n","t","h","_","l","a","b","e","l">>)
                  /\ AnyTermIn(revenue_terms, joined)
               \/ Contains(joined, <<"v","a","r","i","a","n","c","e">>)
                  /\ AnyTermIn(<<<<"r","e","v","e","n","u","e">>, <<"a","m","o","u","n","t">>>>, joined)
               \/ AnyTermIn(time_terms, joined) /\ AnyTermIn(revenue_terms, joined)
                  /\ df.len <= pattern_row_limit
      hits == {n \in 1..Len(order) : matches(order[n])}
  IN  IF hits = {} THEN "default"
      ELSE order[CHOOSE n \in hits : \A m \in hits : n <= m]

\* C14: _detect_data_pattern returns the tag of the first rule, in the order
\* revenue_bridge, customer_analysis, geographic, quarterly, monthly_trends,
\* that the joined lower-cased column names match, and default when none
\* does; the columns churn_amount, customer_name, revenue give
\* revenue_bridge.
C14_PatternPrecedence ==
  (out.op = "_detect_data_pattern" /\ ~out.raised)
    => /\ out.val = FirstMatch(Calls[input.data].DataFrame)
       /\ input.data = BridgeData => out.val = "revenue_bridge"

\* the pattern of churn_amount, customer_name, revenue was detected: the
\* bridge rule and the customer rule both match
C14_Witness ==
  /\ out.op = "_detect_data_pattern" /\ ~out.raised
  /\ input.data = BridgeData
  /\ Keys(input.data.a[1]) = <<<<"c","h","u","r","n","_","a","m","o","u","n","t">>,
                               <<"c","u","s","t","o","m","e","r","_","n","a","m","e">>,
                               <<"r","e","v","e","n","u","e">>>>
  /\ out.val = "revenue_bridge"

\* C15: a dataset whose fields are Month_Label and Revenue is classified
\* monthly_trends by _detect_data_pattern, whatever its number of records,
\* above 24 too.
C15_MonthLabelRevenue ==
  (/\ out.op = "_detect_data_pattern"
   /\ IsList(input.data) /\ Truthy(input.data) /\ AllDicts(input.data.a)
   /\ \A r \in 1..Len(input.data.a) :
         Range(Keys(input.data.a[r])) = {<<"M","o","n","t","h","_","L","a","b","e","l">>, <<"R","e","v","e","n","u","e">>})
    => (~out.raised /\ out.val = "monthly_trends")

\* the pattern of a Month_Label and Revenue series of more than 24 records
\* was detected
C15_Witness ==
  /\ out.op = "_detect_data_pattern" /\ ~out.raised
  /\ input.data \in MonthlyData
  /\ Len(input.data.a) > pattern_row_limit
  /\ out.val = "monthly_trends"

\* C16: for a dataset of records with a string field Customer Name and
\* numeric fields Quarter 3 Revenue and Quarter 4 Revenue, analyze_json_schema
\* returns a schema of data_type quarterly, with revenue_columns exactly
\* [Quarter 3 Revenue, Quarter 4 Revenue], Customer Name among id_columns and
\* bar_chart among suggested_visualizations.
C16_CustomerQuarterScenario ==
  (/\ ret.op = "analyze_json_schema"
   /\ IsList(ret.data) /\ Truthy(ret.data) /\ AllDicts(ret.data.a)
   /\ \A r \in 1..Len(ret.data.a) :
        /\ Keys(ret.data.a[r]) = <<Customer_Name, Quarter_3_Revenue, Quarter_4_Revenue>>
        /\ ret.data.a[r].f[1].v.t = "str"
        /\ IsNumber(ret.data.a[r].f[2].v) /\ IsNumber(ret.data.a[r].f[3].v))
    => /\ ret.kind = "schema"
       /\ heap[ret.val].data_type = "quarterly"
       /\ heap[ret.val].metrics.revenue_columns = <<Quarter_3_Revenue, Quarter_4_Revenue>>
       /\ Customer_Name \in Range(heap[ret.val].metrics.id_columns)
       /\ "bar_chart" \in Range(heap[ret.val].suggested_visualizations)

\* the dataset of Acme and Beta was analyzed on a cold cache
C16_Witness ==
  /\ ret.op = "analyze_json_schema" /\ ret.kind = "schema" /\ ret.ran
  /\ ret.data = QuarterlyData
  /\ input.data = QuarterlyData
  /\ heap[ret.val].metrics.id_columns = <<Customer_Name>>
  /\ heap[ret.val].suggested_visualizations[1] = "bar_chart"

\* C17: the mapping of _analyze_columns has no entry for a field that is
\* null or missing in every record, and an entry for every field with a
\* value that is not null.  Violated: a nested value in any field empties
\* the whole mapping.
C17_ColumnDrop ==
  (/\ out.op = "_analyze_columns"
   /\ IsList(input.data) /\ Truthy(input.data) /\ AllDicts(input.data.a))
    => \A f \in Fields(input.data.a) :
         (\E c \in 1..Len(out.val) : out.val[c].name = f)
           <=> \E r \in 1..Len(input.data.a) :
                  /\ HasKey(input.data.a[r], f)
                  /\ Lookup(input.data.a[r], f) # JNull

\* the first group, in the order revenue, date, percentage, id, a keyword of
\* which is in the lower-cased name; "none" when there is none
FirstGroup(name) ==
  LET order == <<"revenue_columns", "date_columns", "percentage_columns", "id_columns">>
      keywords ==
        <<<<<<"r","e","v","e","n","u","e">>, <<"a","m","o","u","n","t">>, <<"v","a","l","u","e">>, <<"p","r","i","c","e">>, <<"c","o","s","t">>>>,
          <<<<"d","a","t","e">>, <<"m","o","n","t","h">>, <<"q","u","a","r","t","e","r">>, <<"y","e","a","r">>, <<"t","i","m","e">>>>,
          <<<<"p","e","r","c","e","n","t">>, <<"%">>, <<"r","a","t","e">>, <<"r","a","t","i","o">>>>,
          <<<<"i","d">>, <<"n","a","m","e">>, <<"c","u","s","t","o","m","e","r">>, <<"c","l","i","e","n","t">>>>>>
      hits == {n \in 1..Len(order) : AnyTermIn(keywords[n], Lower(name))}
  IN  IF hits = {} THEN "none"
      ELSE order[CHOOSE n \in hits : \A m \in hits : n <= m]

\* C18 as stated: every profiled column whose name holds a keyword of a
\* group is in exactly the first such group in the order revenue, date,
\* percentage, id.  Violated by a column with a revenue keyword and values
\* that are not numeric.
C18_FirstMatchingGroup ==
  LET columns == Calls[input.data]._analyze_columns
  IN  (out.op = "_identify_metrics" /\ ~out.raised)
        => \A c \in 1..Len(columns) :
             FirstGroup(columns[c].name) # "none"
               => {g \in DOMAIN out.val : columns[c].name \in Range(out.val[g])}
                  = {FirstGroup(columns[c].name)}

\* C18, amended: such a column is in exactly the first such group, except
\* that a column whose first group is revenue and whose values are not
\* numeric is in no list at all.
C18_FirstMatchingGroupIfNumeric ==
  LET columns == Calls[input.data]._analyze_columns
  IN  (out.op = "_identify_metrics" /\ ~out.raised)
        => \A c \in 1..Len(columns) :
             FirstGroup(columns[c].name) # "none"
               => {g \in DOMAIN out.val : columns[c].name \in Range(out.val[g])}
                  = IF FirstGroup(columns[c].name) = "revenue_columns"
                       /\ ~columns[c].is_numeric
                      THEN {} ELSE {FirstGroup(columns[c].name)}

\* the metrics of Revenue Date and Rate Date were identified: numeric
\* Revenue Date, with a revenue and a date keyword, is a revenue column;
\* Rate Date, with a date and a percentage keyword, is a date column
C18_Witness ==
  /\ out.op = "_identify_metrics" /\ ~out.raised
  /\ out.val.revenue_columns = <<<<"R","e","v","e","n","u","e"," ","D","a","t","e">>>>
  /\ out.val.date_columns = <<<<"R","a","t","e"," ","D","a","t","e">>>>
  /\ out.val.percentage_columns = <<>>

\* the first category of _detect_data_type, in its priority order, a keyword
\* of which is in the lower-cased name of a field of the records among the
\* first five elements; "general" when there is none
FirstCategory(json_data) ==
  LET order == <<"quarterly", "bridge", "geographic", "customer", "monthly">>
      keywords ==
        <<<<<<"q","u","a","r","t","e","r">>, <<"q","3">>, <<"q","4">>, <<"q","o","q">>>>,
          <<<<"c","h","u","r","n">>, <<"e","x","p","a","n","s","i","o","n">>, <<"b","r","i","d","g","e">>>>,
          <<<<"c","o","u","n","t","r","y">>, <<"r","e","g","i","o","n">>, <<"g","e","o","g","r","a","p","h","i","c">>>>,
          <<<<"c","u","s","t","o","m","e","r">>, <<"c","l","i","e","n","t">>, <<"c","o","n","c","e","n","t","r","a","t","i","o","n">>>>,
          <<<<"m","o","n","t","h">>, <<"m","o","n","t","h","l","y">>, <<"m","o","m">>>>>>
      names == UNION {IF IsDict(json_data.a[r]) THEN Range(Keys(json_data.a[r])) ELSE {} :
                        r \in 1..Min2(5, Len(json_data.a))}
      hits == {n \in 1..Len(order) :
                 \E name \in names : AnyTermIn(keywords[n], Lower(name))}
  IN  IF hits = {} THEN "general"
      ELSE order[CHOOSE n \in hits : \A m \in hits : n <= m]

\* C19 as stated: unknown for an empty or non-array input, and otherwise the
\* first category matched by the column names of the first min(5, n)
\* records, else general.  Violated by an array whose sampled elements are
\* not all records, which gives unknown.
C19_TypeFromSample ==
  out.op = "_detect_data_type"
    => out.val = IF ~IsList(input.data) \/ ~Truthy(input.data) THEN "unknown"
                 ELSE FirstCategory(input.data)

\* C19, amended: for a non-empty array the first min(5, n) elements decide.
\* When the first of them is a record and all of them are records, the
\* result is as stated, so that a keyword column that first appears after
\* the fifth record has no effect; when the first is a list and all of them
\* are empty lists, texts or records, there is no column and the result is
\* general; every other sample gives unknown.
C19_TypeFromSampleOfRecords ==
  out.op = "_detect_data_type"
    => out.val = IF ~IsList(input.data) \/ ~Truthy(input.data) THEN "unknown"
                 ELSE LET sample == SubSeq(input.data.a, 1, Min2(5, Len(input.data.a)))
                          hollow(v) == \/ v.t = "arr" /\ v.a = <<>>
                                       \/ v.t = "str" /\ v.s = <<>>
                                       \/ v.t = "obj" /\ v.f = <<>>
                      IN  IF IsDict(sample[1])
                            THEN IF \A r \in 1..Len(sample) : IsDict(sample[r])
                                   THEN FirstCategory(input.data)
                                   ELSE "unknown"
                          ELSE IF /\ IsList(sample[1])
                                  /\ \A r \in 1..Len(sample) : hollow(sample[r])
                            THEN "general"
                          ELSE "unknown"

\* the type of six records was detected whose sixth record is the first
\* with a Quarter field: general
C19_Witness ==
  /\ out.op = "_detect_data_type"
  /\ IsList(input.data) /\ Len(input.data.a) = 6 /\ AllDicts(input.data.a)
  /\ \A r \in 1..5 : ~HasKey(input.data.a[r], <<"Q","u","a","r","t","e","r">>)
  /\ HasKey(input.data.a[6], <<"Q","u","a","r","t","e","r">>)
  /\ out.val = "general"

\* the tags rule n of the suggestion table appends for a schema: none when
\* the rule does not fire
Appended(n, schema) ==
  LET fires == CASE n = 1 -> schema.metrics.revenue_columns # <<>>
                 [] n = 2 -> schema.data_type = "geographic"
                 [] n = 3 -> schema.metrics.date_columns # <<>>
                 [] n = 4 -> \/ schema.data_type = "customer"
                             \/ schema.metrics.id_columns # <<>>
                 [] n = 5 -> schema.data_type = "bridge"
      tags == <<<<"bar_chart", "line_chart", "metric_cards">>,
                <<"pie_chart", "treemap", "bar_chart">>,
                <<"line_chart", "area_chart">>,
                <<"treemap", "pareto_chart", "concentration_analysis">>,
                <<"waterfall_chart", "sankey_diagram">>>>
  IN  IF fires THEN tags[n] ELSE <<>>

\* C20: the suggestions are the tags of the rules that fire, concatenated in
\* rule order with nothing removed, and they are the fallback list exactly
\* when no rule fired.
C20_SuggestionsAdditive ==
  LET fired == {n \in 1..5 : Appended(n, out.arg) # <<>>}
  IN  out.op = "_suggest_visualizations"
        => /\ fired # {}
                => out.val = Appended(1, out.arg) \o Appended(2, out.arg)
                             \o Appended(3, out.arg) \o Appended(4, out.arg)
                             \o Appended(5, out.arg)
           /\ out.val = <<"table", "bar_chart", "summary_metrics">> <=> fired = {}

\* suggestions were made for a geographic schema with a revenue column: two
\* rules fired and bar_chart is listed twice
C20_Witness ==
  /\ out.op = "_suggest_visualizations"
  /\ Appended(1, out.arg) # <<>> /\ Appended(2, out.arg) # <<>>
  /\ out.val[1] = "bar_chart" /\ out.val[6] = "bar_chart"

\* C21: the confidence score is (30 if data_type is not unknown) + min(20,
\* 2 * number of profiled columns) + min(30, 5 * number of memberships over
\* the five metric groups) + (20 if there are suggestions), both for the
\* schema _calculate_confidence is applied to and in every schema
\* analyze_json_schema returns; every dataset that gives the same four
\* fields gives the same score.
C21_ConfidenceFormula ==
  LET score(schema) ==
        (IF schema.data_type # "unknown" THEN 30 ELSE 0)
        + Min2(20, 2 * Len(schema.columns))
        + Min2(30, 5 * (Len(schema.metrics.revenue_columns)
                        + Len(schema.metrics.date_columns)
                        + Len(schema.metrics.categorical_columns)
                        + Len(schema.metrics.percentage_columns)
                        + Len(schema.metrics.id_columns)))
        + (IF schema.suggested_visualizations # <<>> THEN 20 ELSE 0)
  IN  /\ out.op = "_calculate_confidence"
            => /\ out.val = score(out.arg)
               /\ \A d \in PureInputs :
                     (/\ Truthy(d) /\ ~StructureRaises(d)
                      /\ Calls[d].SchemaSuggested = out.arg)
                       => Calls[d]._calculate_confidence = out.val
      /\ (ret.op = "analyze_json_schema" /\ ret.kind = "schema")
            => heap[ret.val].confidence_score = score(heap[ret.val])

\* a score was computed in which no cap binds and every term counts: three
\* columns, three memberships
C21_Witness ==
  /\ out.op = "_calculate_confidence"
  /\ out.arg.data_type # "unknown"
  /\ Len(out.arg.columns) = 3
  /\ Len(out.arg.metrics.revenue_columns) = 2 /\ Len(out.arg.metrics.id_columns) = 1
  /\ out.arg.suggested_visualizations # <<>>
  /\ out.val = 71

\* C22: a profiled column whose name holds no keyword of the revenue, date,
\* percentage and id groups is in categorical_columns exactly when it is not
\* numeric and 2 * unique_count < number of records, and is in no other
\* group; so at exactly half, or when numeric, it is in no group.
C22_CategoricalByElimination ==
  LET columns == Calls[input.data]._analyze_columns
  IN  (out.op = "_identify_metrics" /\ ~out.raised /\ IsList(input.data))
        => \A c \in 1..Len(columns) :
             FirstGroup(columns[c].name) = "none"
               => {g \in DOMAIN out.val : columns[c].name \in Range(out.val[g])}
                  = IF ~columns[c].is_numeric
                       /\ 2 * columns[c].unique_count < Len(input.data.a)
                      THEN {"categorical_columns"} ELSE {}

\* the metrics of two records were identified whose one column, with no
\* keyword in its name, holds the same string twice: one value for two
\* records, exactly half, and no group
C22_Witness ==
  /\ out.op = "_identify_metrics" /\ ~out.raised
  /\ IsList(input.data) /\ Len(input.data.a) = 2
  /\ Len(Calls[input.data]._analyze_columns) = 1
  /\ FirstGroup(Calls[input.data]._analyze_columns[1].name) = "none"
  /\ ~Calls[input.data]._analyze_columns[1].is_numeric
  /\ Calls[input.data]._analyze_columns[1].unique_count = 1
  /\ \A g \in DOMAIN out.val : out.val[g] = <<>>

\* C23: for a dataset whose joined lower-cased column names match none of
\* the rules before it and hold a date/time/period term and a
\* revenue/amount/value term, _detect_data_pattern returns monthly_trends
\* when it has at most 24 records and default when it has 25 or more.
C23_RowCeiling ==
  LET fallback(df, joined) ==
        (/\ ~AnyTermIn(bridge_terms, joined)
         /\ ~(AnyTermIn(customer_terms, joined) /\ AnyTermIn(revenue_terms, joined))
         /\ ~AnyTermIn(geo_terms, joined)
         /\ ~AnyTermIn(quarterly_terms, joined)
         /\ ~AnyTermIn(monthly_terms, joined)
         /\ ~Contains(joined, <<"m","o","n","t","h","_","l","a","b","e","l">>)
         /\ ~Contains(joined, <<"v","a","r","i","a","n","c","e">>)
         /\ AnyTermIn(time_terms, joined)
         /\ AnyTermIn(revenue_terms, joined))
          => out.val = IF df.len <= 24 THEN "monthly_trends" ELSE "default"
      named(df) == fallback(df, Join([i \in 1..Len(df.columns) |-> Lower(df.columns[i])]))
  IN  (out.op = "_detect_data_pattern" /\ ~out.raised)
        => named(Calls[input.data].DataFrame)

\* the pattern of 25 records of Order Date and Total Amount was detected:
\* default, one record past the ceiling
C23_Witness ==
  /\ out.op = "_detect_data_pattern" /\ ~out.raised
  /\ input.data \in DatedData
  /\ Len(input.data.a) = 25
  /\ out.val = "default"

\* C24: every analysis _analyze_columns makes for a dataset of n records,
\* a record without the field counting as null, has non_null_count >= 1,
\* null_count >= 0, unique_count <= non_null_count and
\* non_null_count + null_count = n; so has every column of a schema
\* analyze_json_schema returns.
C24_ProfileCounts ==
  LET counted(columns, n) ==
        \A c \in 1..Len(columns) :
          /\ columns[c].non_null_count >= 1
          /\ columns[c].null_count >= 0
          /\ columns[c].unique_count <= columns[c].non_null_count
          /\ columns[c].non_null_count + columns[c].null_count = n
  IN  /\ (out.op = "_analyze_columns" /\ IsList(input.data))
            => counted(out.val, Len(input.data.a))
      /\ (ret.op = "analyze_json_schema" /\ ret.kind = "schema" /\ IsList(ret.data))
            => counted(heap[ret.val].columns, Len(ret.data.a))

\* three records were profiled of which the second lacks the one field: two
\* values, one null
C24_Witness ==
  /\ out.op = "_analyze_columns"
  /\ IsList(input.data) /\ Len(input.data.a) = 3 /\ AllDicts(input.data.a)
  /\ Keys(input.data.a[2]) = <<>>
  /\ Len(out.val) = 1
  /\ out.val[1].non_null_count = 2 /\ out.val[1].null_count = 1

\* C25: the tag _detect_data_pattern returns for a dataset is the same for
\* every declared category analysis_type, and is the one the column names
\* and the number of records give.
C25_DeclaredCategoryIgnored ==
  (out.op = "_detect_data_pattern" /\ ~out.raised)
    => /\ \A analysis_type \in AnalysisTypes :
            Calls[input.data]._detect_data_pattern[analysis_type] = out.val
       /\ out.val = FirstMatch(Calls[input.data].DataFrame)

\* the pattern of a Month_Label and Revenue series was detected with the
\* declared category quarterly: monthly_trends
C25_Witness ==
  /\ out.op = "_detect_data_pattern" /\ ~out.raised
  /\ out.arg = "quarterly"
  /\ input.data \in MonthlyData
  /\ out.val = "monthly_trends"

(* ------------------------- invalidation and reuse ---------------------- *)
\* C26: invalidation forces recomputation: a call analyze_json_schema(D, k)
\* for a dataset whose analysis returns a schema, made after clear_cache (no
\* entry stored for the key since) or ttl or more after the entry of its key
\* was stored, misses, runs the analysis of D again and stores the new schema
\* under the key stamped with the time of this call; and a further call
\* analyze_json_schema(D, k) less than ttl after that recomputation is a hit
\* returning the very dict just stored.
C26_InvalidationRecomputes ==
  [][\A i \in AnalyzeInputs :
       LET key == CacheKeys[<<i[1], <<i[2]>>>>]
       IN  /\ (/\ analyze_json_schema(i[1], i[2])
                /\ Truthy(i[1]) /\ ~StructureRaises(i[1])
                /\ \/ key \notin DOMAIN schema_sets
                   \/ now - schema_sets[key].t0 >= cache_ttl)
               => (/\ ret'.kind = "schema" /\ ret'.ran
                   /\ key \in DOMAIN schema_cache'
                   /\ schema_cache'[key] = [data |-> ret'.val, timestamp |-> now]
                   /\ heap'[ret'.val] = BuildSchema(i[1])
                   /\ schema_sets'[key].t0 = now
                   /\ \A k \in DOMAIN schema_cache' \ {key} :
                        k \in DOMAIN schema_cache /\ schema_cache'[k] = schema_cache[k])
           /\ (/\ analyze_json_schema(i[1], i[2])
                /\ ret.op = "analyze_json_schema" /\ ret.ran /\ ret.kind = "schema"
                /\ ret.data = i[1] /\ ret.disc = i[2]
                /\ now - ret.at < cache_ttl)
               => (/\ ret'.kind = "schema" /\ ~ret'.ran
                   /\ ret'.val = ret.val
                   /\ heap'[ret'.val] = heap[ret.val]
                   /\ schema_cache' = schema_cache)]_vars

\* a call found the entry of its key expired, ttl or more after it was
\* stored, ran the analysis again and stored the schema at the time of the call
C26_Witness ==
  /\ ret.op = "analyze_json_schema"
  /\ ret.kind = "schema" /\ ret.ran
  /\ ret.note = 1
  /\ ret.at >= cache_ttl
  /\ schema_cache[ret.key] = [data |-> ret.val, timestamp |-> ret.at]
  /\ heap[ret.val] = BuildSchema(ret.data)


\* C27: a hit does not extend the life of an entry: a get of a key whose
\* entry is younger than ttl returns its value and leaves that entry, its
\* timestamp and every other entry of both caches as they were; the
\* timestamp of an entry is always the time of the last set of its key, and
\* a get ttl or more after that set returns None and finds the key gone
\* afterwards, however often the entry was read in between.
C27_HitKeepsTimestamp ==
  [][/\ \A key \in StoreKeys :
          /\ (/\ get_schema_cache(key)
               /\ key \in DOMAIN schema_cache
               /\ now - schema_cache[key].timestamp < cache_ttl)
              => (/\ ret'.val = schema_cache[key].data
                  /\ schema_cache' = schema_cache
                  /\ heap'[ret'.val] = heap[ret'.val]
                  /\ analysis_cache' = analysis_cache)
          /\ (/\ get_schema_cache(key)
               /\ key \in DOMAIN schema_sets
               /\ now - schema_sets[key].t0 >= cache_ttl)
              => (ret'.val = None /\ key \notin DOMAIN schema_cache')
     /\ \A key \in AnalysisKeys :
          /\ (/\ get_analysis_cache(key)
               /\ key \in DOMAIN analysis_cache
               /\ now - analysis_cache[key].timestamp < cache_ttl)
              => (/\ ret'.val = analysis_cache[key].data
                  /\ analysis_cache' = analysis_cache
                  /\ schema_cache' = schema_cache)
          /\ (/\ get_analysis_cache(key)
               /\ key \in DOMAIN analysis_sets
               /\ now - analysis_sets[key].t0 >= cache_ttl)
              => (ret'.val = None /\ key \notin DOMAIN analysis_cache')
     /\ \A k \in DOMAIN schema_cache' :
          k \in DOMAIN schema_sets' /\ schema_cache'[k].timestamp = schema_sets'[k].t0
     /\ \A k \in DOMAIN analysis_cache' :
          k \in DOMAIN analysis_sets'
          /\ analysis_cache'[k].timestamp = analysis_sets'[k].t0]_vars

\* a get served an entry at a later time than its set, with another entry in
\* the other cache, and the entry still carries the time of its set
C27_Witness ==
  /\ ret.op = "get_schema_cache"
  /\ ret.kind = "schema"
  /\ ret.at > schema_sets[ret.key].t0
  /\ schema_cache[ret.key] = [data |-> ret.val, timestamp |-> schema_sets[ret.key].t0]
  /\ analysis_cache # EmptyDict


\* C28: a profiled column whose lower-cased name holds a revenue keyword and
\* whose values are not numeric is in none of the five lists of
\* _identify_metrics: not in revenue_columns, and not in date, percentage,
\* id or categorical either, whatever other keywords its name holds and
\* however few distinct values it has.
C28_NonNumericRevenueUngrouped ==
  LET revenue == <<<<"r","e","v","e","n","u","e">>, <<"a","m","o","u","n","t">>, <<"v","a","l","u","e">>, <<"p","r","i","c","e">>, <<"c","o","s","t">>>>
      ungrouped(columns, metrics) ==
        \A c \in 1..Len(columns) :
          (AnyTermIn(revenue, Lower(columns[c].name)) /\ ~columns[c].is_numeric)
            => \A g \in DOMAIN metrics : columns[c].name \notin Range(metrics[g])
  IN  /\ (out.op = "_identify_metrics" /\ ~out.raised)
            => ungrouped(Calls[input.data]._analyze_columns, out.val)
      /\ (ret.op = "analyze_json_schema" /\ ret.kind = "schema")
            => ungrouped(heap[ret.val].columns, heap[ret.val].metrics)

\* the metrics of three records were identified whose one column, Price
\* Rate, holds the same string three times: a revenue and a percentage
\* keyword, one distinct value for three records, and every list is empty
C28_Witness ==
  /\ out.op = "_identify_metrics" /\ ~out.raised
  /\ IsList(input.data) /\ Len(input.data.a) = 3
  /\ Len(Calls[input.data]._analyze_columns) = 1
  /\ Calls[input.data]._analyze_columns[1].name = <<"P","r","i","c","e"," ","R","a","t","e">>
  /\ ~Calls[input.data]._analyze_columns[1].is_numeric
  /\ Calls[input.data]._analyze_columns[1].unique_count = 1
  /\ \A g \in DOMAIN out.val : out.val[g] = <<>>


\* C29: every schema analyze_json_schema returns, computed or served from the
\* cache, has a non-empty suggested_visualizations list and therefore a
\* confidence_score of at least 20; _suggest_visualizations never returns an
\* empty list, and the score of the schema it completes is at least 20.
C29_SuggestionsNeverEmpty ==
  /\ (ret.op = "analyze_json_schema" /\ ret.kind = "schema")
        => /\ Len(heap[ret.val].suggested_visualizations) > 0
           /\ heap[ret.val].confidence_score >= 20
  /\ out.op = "_suggest_visualizations" => Len(out.val) > 0
  /\ out.op = "_calculate_confidence"
        => Len(out.arg.suggested_visualizations) > 0 /\ out.val >= 20

\* a top-level object was analyzed: unknown data type, no columns, no metric
\* membership, the default suggestions, and a score of exactly 20
C29_Witness ==
  /\ ret.op = "analyze_json_schema" /\ ret.kind = "schema"
  /\ ~IsList(ret.data)
  /\ heap[ret.val].data_type = "unknown"
  /\ heap[ret.val].columns = <<>>
  /\ heap[ret.val].suggested_visualizations = <<"table", "bar_chart", "summary_metrics">>
  /\ heap[ret.val].confidence_score = 20


(* ------------------- concurrent calls of the analyzer ------------------ *)
\* C30: analyze_json_schema is not single-flight: a caller whose lookup
\* missed builds the schema and stores it whatever another caller of the same
\* dataset does meanwhile.  Its store leaves under the key the one entry
\* holding the dict it returns, stamped with the time it read building the
\* entry; when the entry it replaces is the one another caller of the same
\* dataset built and returned, the two callers hold two distinct dicts of
\* equal content and the cache has as many entries as before; and a caller
\* that missed and has not stored yet is still to build and store after the
\* other's store.
C30_NotSingleFlight ==
  [][\A t \in Threads :
       T_analyze_store(t) =>
         LET key == threads[t].key
         IN  /\ threads'[t].ran /\ threads'[t].pc = "idle"
             /\ key \in DOMAIN schema_cache'
             /\ schema_cache'[key] = [data |-> threads'[t].val,
                                      timestamp |-> threads[t].item.timestamp]
             /\ threads[t].item.timestamp <= now
             /\ heap'[threads'[t].val] = BuildSchema(threads[t].data)
             /\ \A u \in Threads \ {t} :
                  /\ (/\ threads[u].pc = "idle" /\ threads[u].op = "analyze"
                       /\ threads[u].ran /\ threads[u].data = threads[t].data
                       /\ key \in DOMAIN schema_cache
                       /\ schema_cache[key].data = threads[u].val)
                      => (/\ threads'[t].found = threads[u].val
                          /\ threads'[t].val # threads'[u].val
                          /\ heap'[threads'[t].val] = heap'[threads'[u].val]
                          /\ DOMAIN schema_cache' = DOMAIN schema_cache)
                  /\ (threads[u].pc = "build" /\ threads[u].key = key)
                      => (threads'[u] = threads[u] /\ ENABLED T_analyze_build(u))
                  /\ (threads[u].pc = "store" /\ threads[u].key = key)
                      => (threads'[u] = threads[u] /\ ENABLED T_analyze_store(u))]_vars

\* both callers analyzed the same dataset, both built and stored: the second
\* store replaced the entry of the first, which the first caller returned,
\* the cache holds the second caller's dict, and the two dicts are equal
C30_Witness ==
  \E t \in Threads, u \in Threads :
    /\ t # u
    /\ threads[t].pc = "idle" /\ threads[u].pc = "idle"
    /\ threads[t].op = "analyze" /\ threads[u].op = "analyze"
    /\ threads[t].ran /\ threads[u].ran
    /\ threads[t].data = threads[u].data
    /\ threads[t].found = threads[u].val
    /\ threads[t].val # threads[u].val
    /\ DOMAIN schema_cache = {threads[t].key}
    /\ schema_cache[threads[t].key].data = threads[t].val
    /\ heap[threads[t].val] = heap[threads[u].val]

====
